---- MODULE Spec2Model ----
(***************************************************************************)
(* Model of gerbera's content manager (src/src/content/content_manager.cc):*)
(* the two-queue task scheduler with its single worker thread, task        *)
(* invalidation, shutdown, the task-list query, and the remove engine with *)
(* the virtual-container cache.                                            *)
(***************************************************************************)
EXTENDS Integers, Sequences, FiniteSets, TLC

(***************************************************************************)
(* Bounds of the model.                                                    *)
(***************************************************************************)
\* number of tasks addTask may create in one behaviour (caps taskID)
MaxTasks == 2
\* number of directory entries a recursive add or a rescan iterates over
MaxEntries == 1
\* number of asynchronous removeObject calls that enqueue a task
MaxRemoves == 1
\* greatest modification time of a directory entry
MaxTime == 2
\* number of entries of a directory addRecursive walks
MaxWalk == 3
\* number of play events
MaxPlays == 7
\* number of mutations of the catalog whose notifications are followed
MaxChanges == 3

(***************************************************************************)
(* Program constants.                                                      *)
(***************************************************************************)
\* "no task": currentTask == nullptr, and the parent id of a top-level task
NoTask == 0
CDS_ID_BLACKHOLE == -1
CDS_ID_ROOT == 0
CDS_ID_FS_ROOT == 1
INVALID_OBJECT_ID == -333
\* ids outside the catalog range that every remove must reject
IS_FORBIDDEN_CDS_ID(id) == id <= CDS_ID_FS_ROOT

(***************************************************************************)
(* Paths are strings, modelled as sequences of characters, because the     *)
(* code compares them with the string function startswith.                 *)
(***************************************************************************)
PathRoot == <<"/">>
PathM == <<"/", "m">>
PathMA == <<"/", "m", "/", "a">>
PathMS == <<"/", "m", "/", "s">>
PathM2 == <<"/", "m", "2">>
NoPath == <<>>

\* startswith(str, prefix) of util/tools
startswith(str, prefix) ==
    /\ Len(prefix) <= Len(str)
    /\ SubSeq(str, 1, Len(prefix)) = prefix

\* paths an asynchronous addFile is called with
AddPaths == {PathMS, PathM2}

(***************************************************************************)
(* The catalog the database holds.  Objects 0 and 1 always exist; 2 is the *)
(* container /m, 3 the item /m/a, which has an attached resource           *)
(* (CH_RESOURCE).                                                          *)
(***************************************************************************)
PhysicalIds == {2, 3}
\* ids a remove is called with
ObjectIds == {CDS_ID_BLACKHOLE, CDS_ID_ROOT, CDS_ID_FS_ROOT} \cup PhysicalIds

isContainer(id) == id \in {CDS_ID_ROOT, CDS_ID_FS_ROOT, 2}
hasResource(id) == id = 3
getLocation(id) ==
    CASE id = CDS_ID_ROOT -> NoPath
      [] id = CDS_ID_FS_ROOT -> PathRoot
      [] id = 2 -> PathM
      [] id = 3 -> PathMA
      [] OTHER -> NoPath
getParentID(id) ==
    CASE id = 2 -> CDS_ID_FS_ROOT
      [] id = 3 -> 2
      [] id = CDS_ID_FS_ROOT -> CDS_ID_ROOT
      [] OTHER -> CDS_ID_BLACKHOLE

\* index of the last separator of a path (0 when it has none)
LastSeparator(p) ==
    LET S == {i \in 1..Len(p) : p[i] = "/"}
    IN  IF S = {} THEN 0 ELSE CHOOSE i \in S : \A j \in S : j <= i
\* fs::path::parent_path
parent_path(p) ==
    LET i == LastSeparator(p)
    IN  IF i <= 1 THEN SubSeq(p, 1, i) ELSE SubSeq(p, 1, i - 1)

\* virtual-container chains the layout asks for: "/A" and "/A/B"
ChainA == <<"/", "A">>
ChainAB == <<"/", "A", "/", "B">>
Chains == {ChainA, ChainAB}
ChainId(c) == IF c = ChainA THEN 10 ELSE 11
ChainPrefixes(c) == {p \in Chains : startswith(c, p)}

VARIABLES
    taskID,         \* ContentManager::taskID, the next id addTask hands out
    tasks,          \* the task objects, by id: type, parentID, valid, ...
    taskQueue1,     \* normal-priority queue (ids)
    taskQueue2,     \* low-priority queue (ids)
    currentTask,    \* ContentManager::currentTask (NoTask for nullptr)
    shutdownFlag,   \* ContentManager::shutdownFlag
    working,        \* ContentManager::working
    mutex,          \* holder of the thread runner's mutex
    wpc,            \* position of the worker thread in threadProc
    wakeup,         \* a notify() delivered to the waiting worker
    walk,           \* directory entries the running task has left to visit
    sdpc,           \* position of the thread that called shutdown()
    dbObjects,      \* ids of the physical objects the database holds
    dbChains,       \* chains of the virtual containers the database holds
    containerMap,   \* ContentManager::containerMap: chain -> container id
    runLog,         \* history: the tasks in the order the worker dequeued them,
                    \* each with the queue it came from
    started,        \* history: ids whose run() the worker invoked
    cancelled,      \* history: ids an invalidateTask call covered
    outcome,        \* history: how the last run() of the worker ended
    dbRemoved,      \* history: ids database->removeObject was invoked for
    lastCall,       \* history: the last removeObject call and its result
    lateTasks,      \* history: ids enqueued while shutdownFlag was set
    lastAdd,        \* history: the last chain-add call and what it returned
    firstIds,       \* history: chain -> id the first chain-add call returned
    disk,           \* the directory /m on disk: entry name -> mtime (0: absent)
    dbFiles,        \* the catalog below /m: entry name -> mtime recorded when
                    \* the object was added (0: no object), "." -> mtime of /m
    adir,           \* the AutoscanDirectory watching /m
    dbAutoscan,     \* the row of the autoscan directory in the database
    scan,           \* position and locals of the running _rescanDirectory
    scanLog,        \* history: how the last scan of /m began and ended
    addWalk,        \* position and locals of addRecursive over a new directory
    lastOpened,     \* ContentManager::lastOpened
    flagged,        \* parents whose item has OBJECT_FLAG_PLAYED
    lastPlay,       \* history: parent -> number of the last play event for an
                    \* item of it (0: none)
    changeLog,      \* history: the mutations applied through the database and
                    \* the changed-containers results forwarded, in order
    removal,        \* position and arguments of the thread inside
                    \* removeObject(async)
    notifying,      \* threads inside timerNotify, between its test of the
                    \* counters and its call of rescanDirectory
    dbItem,         \* an item of the catalog, as the database holds it
    lastUpdate,     \* history: the last updateObject(objectID, parameters)
    hooks           \* position and locals of each thread inside
                    \* PlayHookHandler::operator()

schedVars == <<taskID, tasks, taskQueue1, taskQueue2, currentTask,
               shutdownFlag, working, mutex, wpc, wakeup, walk, sdpc>>
dbVars == <<dbObjects, dbChains, containerMap>>
histVars == <<runLog, started, cancelled, outcome, dbRemoved, lastCall>>
\* what addTask writes
queueVars == <<taskID, tasks, taskQueue1, taskQueue2, wakeup, lateTasks>>
\* the state of the layout, scan and play-hook parts, and of the callers
\* followed step by step
chainVars == <<lastAdd, firstIds>>
scanVars == <<disk, dbFiles, adir, dbAutoscan, scan, scanLog>>
sideVars == <<addWalk, lastOpened, flagged, lastPlay, changeLog, removal,
              notifying>>
\* the item an update works on, and the play hooks followed step by step
itemVars == <<dbItem, lastUpdate, hooks>>
extVars == <<chainVars, itemVars, scanVars, sideVars>>
vars == <<schedVars, dbVars, histVars, lateTasks, extVars>>

TaskTypes == {"AddFile", "RemoveObject", "RescanDirectory"}

NoCall == [op |-> "none", id |-> CDS_ID_BLACKHOLE, result |-> "none"]

\* no chain-add call yet
NoAdd == [op |-> "none", chain |-> <<>>, id |-> INVALID_OBJECT_ID,
          isNew |-> FALSE, cached |-> FALSE, source |-> <<>>, handed |-> <<>>]

\* entries of the directory /m: the regular file a and the directory s
Names == {"a", "s"}
IsDir(n) == n = "s"
\* nothing on disk below /m, nothing in the catalog below /m
NoEntries == [n \in Names |-> 0]
NoFiles == [n \in Names \cup {"."} |-> 0]
\* no scan is running
NoScan == [pc |-> "idle", todo |-> {}, list |-> {}, curMax |-> 0, newMax |-> 0]
\* no scan has run since the directory changed
NoScanLog == [ended |-> "none", start |-> 0, visible |-> FALSE, finishes |-> 0,
              known |-> {}, met |-> {}, removed |-> {}, readded |-> {},
              added |-> {}, by |-> NoTask, spawned |-> {}]
\* the autoscan directory as configuration load creates it: in the registry
\* with a valid scan id (scanValid), not persistent, for /m and mapped to
\* container 2
NewAutoscan(recursive) ==
    [scanValid |-> TRUE, recursive |-> recursive, taskCount |-> 0,
     previousLMT |-> 0, currentLMT |-> 0, persistent |-> FALSE, objectID |-> 2,
     location |-> PathM]

InitChain ==
    /\ lastAdd = NoAdd
    /\ firstIds = <<>>

InitScan(disks, modes) ==
    /\ disk \in disks
    /\ dbFiles = NoFiles
    /\ \E r \in modes : adir = NewAutoscan(r)
    /\ dbAutoscan = [present |-> TRUE, lmt |-> 0]
    /\ scan = NoScan
    /\ scanLog = NoScanLog

\* addRecursive is not running
NoWalk == [pc |-> "idle", todo |-> <<>>, firstChild |-> FALSE, children |-> 0,
           items |-> 0, signals |-> 0, curMax |-> 0, newMax |-> 0, seen |-> 0]

\* parent containers of the items that are played, one item each
ParentIds == 11..16

\* no thread is inside removeObject(async)
NoRemoval == [pc |-> "idle", id |-> CDS_ID_BLACKHOLE, rescanResource |-> FALSE]

\* the item before it is imported
NoItem == [title |-> "", class |-> "", location |-> "", mimeType |-> "",
           protocolInfo |-> <<>>, bookMarkPos |-> 0, description |-> ""]
\* no updateObject(objectID, parameters) yet
NoUpdate == [parameters |-> <<>>, before |-> NoItem, wrote |-> FALSE]
\* the threads that run a PlayHookHandler, and one that is not inside it
Threads == {"t1", "t2"}
NoHook == [pc |-> "idle", parent |-> 0, at |-> 0, seen |-> <<>>, runs |-> 0]

InitSide ==
    /\ dbItem = NoItem
    /\ lastUpdate = NoUpdate
    /\ hooks = [t \in Threads |-> NoHook]
    /\ addWalk = NoWalk
    /\ lastOpened = <<>>
    /\ flagged = {}
    /\ lastPlay = [p \in ParentIds |-> 0]
    /\ changeLog = <<>>
    /\ removal = NoRemoval
    /\ notifying = {}

InitExt ==
    /\ InitChain
    /\ InitScan({NoEntries}, {TRUE})
    /\ InitSide

InitCore ==
    /\ taskID = 1
    /\ tasks = <<>>
    /\ taskQueue1 = <<>>
    /\ taskQueue2 = <<>>
    /\ currentTask = NoTask
    /\ shutdownFlag = FALSE
    /\ working = FALSE
    /\ mutex = "none"
    /\ wpc = "start"
    /\ wakeup = FALSE
    /\ walk = 0
    /\ sdpc = "idle"
    /\ dbObjects = PhysicalIds
    /\ dbChains = {}
    /\ containerMap = <<>>
    /\ runLog = <<>>
    /\ started = {}
    /\ cancelled = {}
    /\ outcome = "none"
    /\ dbRemoved = {}
    /\ lastCall = NoCall
    /\ lateTasks = {}

Init ==
    /\ InitExt
    /\ InitCore

(***************************************************************************)
(* Task objects.  A task's id is its index in tasks.                       *)
(***************************************************************************)
\* CMAddFileTask for path, as addFileInternal builds it
CMAddFileTask(path, parentTaskID) ==
    [type |-> "AddFile", parentID |-> parentTaskID, valid |-> TRUE,
     path |-> path, objectID |-> INVALID_OBJECT_ID, rescanResource |-> FALSE]
\* CMRemoveObjectTask; GenericTask leaves the parent id 0
CMRemoveObjectTask(objectID, rescanResource) ==
    [type |-> "RemoveObject", parentID |-> NoTask, valid |-> TRUE,
     path |-> NoPath, objectID |-> objectID, rescanResource |-> rescanResource]
\* CMRescanDirectoryTask; rescanDirectory sets no parent id
CMRescanDirectoryTask(objectID) ==
    [type |-> "RescanDirectory", parentID |-> NoTask, valid |-> TRUE,
     path |-> NoPath, objectID |-> objectID, rescanResource |-> FALSE]

\* GenericTask::invalidate
invalidate(t) == [t EXCEPT !.valid = FALSE]

\* the tasks invalidateTask and removeObject walk: the current one and both queues
Range(q) == {q[i] : i \in 1..Len(q)}
LiveTasks ==
    (IF currentTask = NoTask THEN {} ELSE {currentTask})
        \cup Range(taskQueue1) \cup Range(taskQueue2)

\* a notify that wakes nobody
unheard == wakeup
\* ThreadRunner::notify: wakes the worker if it waits, and is lost otherwise
notify == wakeup \/ wpc = "waiting"

(***************************************************************************)
(* ContentManager::addTask, on the task list ts (the caller may have       *)
(* changed validity flags in the same locked section).                     *)
(***************************************************************************)
push_front(q, id) ==
    <<id>> \o q
push_back(q, id) ==
    Append(q, id)

addTask(ts, task, lowPriority) ==
    /\ mutex = "none"
    /\ Len(tasks) < MaxTasks
    /\ tasks' = Append(ts, task)
    /\ taskID' = taskID + 1
    /\ taskQueue1' = IF lowPriority THEN taskQueue1 ELSE push_back(taskQueue1, taskID)
    /\ taskQueue2' = IF lowPriority THEN push_back(taskQueue2, taskID) ELSE taskQueue2
    /\ wakeup' = notify
    /\ lateTasks' = IF shutdownFlag THEN lateTasks \cup {taskID} ELSE lateTasks

(***************************************************************************)
(* ContentManager::threadProc.                                             *)
(***************************************************************************)
\* the queue the worker takes its next task from: 1, 2, or 0 when both are empty
PreferLow == IF taskQueue2 # <<>> THEN 2 ELSE IF taskQueue1 # <<>> THEN 1 ELSE 0
SelectQueue == IF taskQueue1 # <<>> THEN 1 ELSE IF taskQueue2 # <<>> THEN 2 ELSE 0

front(q) == Head(q)
leave(q) == q
pop_front(q) == Tail(q)

\* the condition of the worker's loop: while (!shutdownFlag)
LoopsForever == TRUE
LoopCondition == ~shutdownFlag

\* uniqueLock() and working = true, before the loop
WorkerStart ==
    /\ wpc = "start"
    /\ mutex = "none"
    /\ mutex' = "worker"
    /\ working' = TRUE
    /\ wpc' = "loop"
    /\ UNCHANGED <<taskID, tasks, taskQueue1, taskQueue2, currentTask,
                   shutdownFlag, wakeup, walk, sdpc>>
    /\ UNCHANGED <<dbVars, histVars>>
    /\ UNCHANGED lateTasks
    /\ UNCHANGED extVars

\* while (!shutdownFlag) fails: the thread leaves the loop and ends; the
\* unique_lock's destructor releases the mutex if the thread owns it
WorkerExit ==
    /\ wpc = "loop"
    /\ ~LoopCondition
    /\ wpc' = "exited"
    /\ mutex' = IF mutex = "worker" THEN "none" ELSE mutex
    /\ UNCHANGED <<taskID, tasks, taskQueue1, taskQueue2, currentTask,
                   shutdownFlag, working, wakeup, walk, sdpc>>
    /\ UNCHANGED <<dbVars, histVars>>
    /\ UNCHANGED lateTasks
    /\ UNCHANGED extVars

\* one pass of the loop body under the lock that finds a task: it becomes
\* currentTask and the lock is released
WorkerDequeue ==
    /\ wpc = "loop"
    /\ LoopCondition
    /\ mutex = "worker"
    /\ SelectQueue # 0
    /\ LET q == IF SelectQueue = 1 THEN taskQueue1 ELSE taskQueue2
           task == front(q)
       IN  /\ currentTask' = task
           /\ taskQueue1' = IF SelectQueue = 1 THEN pop_front(taskQueue1) ELSE taskQueue1
           /\ taskQueue2' = IF SelectQueue = 2 THEN pop_front(taskQueue2) ELSE taskQueue2
           /\ runLog' = Append(runLog, [task |-> task, queue |-> SelectQueue])
    /\ mutex' = "none"
    /\ wpc' = "dispatch"
    /\ UNCHANGED <<taskID, tasks, shutdownFlag, working, wakeup, walk, sdpc>>
    /\ UNCHANGED <<dbVars, started, cancelled, outcome, dbRemoved, lastCall>>
    /\ UNCHANGED lateTasks
    /\ UNCHANGED extVars

\* one pass of the loop body that finds both queues empty: wait(lock)
WorkerWait ==
    /\ wpc = "loop"
    /\ LoopCondition
    /\ mutex = "worker"
    /\ SelectQueue = 0
    /\ currentTask' = NoTask
    /\ working' = FALSE
    /\ mutex' = "none"
    /\ wakeup' = FALSE
    /\ wpc' = "waiting"
    /\ UNCHANGED <<taskID, tasks, taskQueue1, taskQueue2, shutdownFlag, walk, sdpc>>
    /\ UNCHANGED <<dbVars, histVars>>
    /\ UNCHANGED lateTasks
    /\ UNCHANGED extVars

\* wait(lock) returns after a notify, with the lock held again
WorkerWake ==
    /\ wpc = "waiting"
    /\ wakeup
    /\ mutex = "none"
    /\ mutex' = "worker"
    /\ wakeup' = FALSE
    /\ working' = TRUE
    /\ wpc' = "loop"
    /\ UNCHANGED <<taskID, tasks, taskQueue1, taskQueue2, currentTask,
                   shutdownFlag, walk, sdpc>>
    /\ UNCHANGED <<dbVars, histVars>>
    /\ UNCHANGED lateTasks
    /\ UNCHANGED extVars

\* a condition variable may also return from wait with no notify
WorkerSpuriousWake ==
    /\ wpc = "waiting"
    /\ ~wakeup
    /\ mutex = "none"
    /\ mutex' = "worker"
    /\ working' = TRUE
    /\ wpc' = "loop"
    /\ UNCHANGED <<taskID, tasks, taskQueue1, taskQueue2, currentTask,
                   shutdownFlag, wakeup, walk, sdpc>>
    /\ UNCHANGED <<dbVars, histVars>>
    /\ UNCHANGED lateTasks
    /\ UNCHANGED extVars

\* whether the worker invokes run() on the task it holds
RunsAlways(t) == TRUE
ShouldRun(t) == tasks[t].valid

\* if (task->isValid()) task->run(), an invalid task being skipped: run() is
\* invoked at the read of the flag, the call following it with nothing in
\* between; a recursive add or a rescan opens a directory of n entries
WorkerInvoke ==
    /\ wpc = "dispatch"
    /\ IF ShouldRun(currentTask)
       THEN /\ wpc' = "running"
            /\ started' = started \cup {currentTask}
            /\ outcome' = "running"
            /\ \E n \in 0..MaxEntries :
                   walk' = IF tasks[currentTask].type = "RemoveObject" THEN 0 ELSE n
       ELSE /\ wpc' = "after"
            /\ outcome' = "skipped"
            /\ UNCHANGED <<started, walk>>
    /\ UNCHANGED <<taskID, tasks, taskQueue1, taskQueue2, currentTask,
                   shutdownFlag, working, mutex, wakeup, sdpc>>
    /\ UNCHANGED <<dbVars, runLog, cancelled, dbRemoved, lastCall>>
    /\ UNCHANGED lateTasks
    /\ UNCHANGED extVars

\* the test at the head of the walk loop of _rescanDirectory and addRecursive
IgnoresShutdown == ~tasks[currentTask].valid
StopWalk == shutdownFlag \/ ~tasks[currentTask].valid

\* one iteration of the walk loop of the running task: it ends the walk when
\* told to stop; otherwise it handles one directory entry, which is a file,
\* or (rescan only) a sub-directory the catalog knows, rescanned by a new
\* low-priority task, or one it does not know, added by a new low-priority
\* task whose parent is the running task
RunEntry ==
    /\ wpc = "running"
    /\ walk > 0
    /\ IF StopWalk
       THEN /\ walk' = 0
            /\ UNCHANGED queueVars
       ELSE /\ walk' = walk - 1
            /\ \/ UNCHANGED queueVars
               \/ /\ tasks[currentTask].type = "RescanDirectory"
                  /\ addTask(tasks, CMRescanDirectoryTask(2), TRUE)
               \/ /\ tasks[currentTask].type = "RescanDirectory"
                  /\ addTask(tasks, CMAddFileTask(PathMS, currentTask), TRUE)
    /\ UNCHANGED <<currentTask, shutdownFlag, working, mutex, wpc, sdpc>>
    /\ UNCHANGED <<dbVars, histVars>>
    /\ UNCHANGED extVars

\* the try block of threadProc around run(): what the worker does when run()
\* ends with kind "returned", "runtime_error" or "ServerShutdownException"
Propagates(kind) ==
    [wpc |-> IF kind = "runtime_error" THEN "terminated" ELSE "after",
     shutdownFlag |-> shutdownFlag \/ kind = "ServerShutdownException"]
Catch(kind) ==
    [wpc |-> "after",
     shutdownFlag |-> shutdownFlag \/ kind = "ServerShutdownException"]

\* run() of an add or rescan task returns after its walk
RunReturn ==
    /\ wpc = "running"
    /\ walk = 0
    /\ tasks[currentTask].type # "RemoveObject"
    /\ wpc' = Catch("returned").wpc
    /\ shutdownFlag' = Catch("returned").shutdownFlag
    /\ outcome' = "returned"
    /\ UNCHANGED <<taskID, tasks, taskQueue1, taskQueue2, currentTask,
                   working, mutex, wakeup, walk, sdpc>>
    /\ UNCHANGED <<dbVars, runLog, started, cancelled, dbRemoved, lastCall>>
    /\ UNCHANGED lateTasks
    /\ UNCHANGED extVars

\* a collaborator (database, filesystem, layout) raises inside run()
RunThrow ==
    /\ wpc = "running"
    /\ \E kind \in {"runtime_error", "ServerShutdownException"} :
           /\ wpc' = Catch(kind).wpc
           /\ shutdownFlag' = Catch(kind).shutdownFlag
           /\ outcome' = kind
    /\ walk' = 0
    /\ UNCHANGED <<taskID, tasks, taskQueue1, taskQueue2, currentTask,
                   working, mutex, wakeup, sdpc>>
    /\ UNCHANGED <<dbVars, runLog, started, cancelled, dbRemoved, lastCall>>
    /\ UNCHANGED lateTasks
    /\ UNCHANGED extVars

\* if (!shutdownFlag) lock.lock(): the test
WorkerAfter ==
    /\ wpc = "after"
    /\ wpc' = IF shutdownFlag THEN "loop" ELSE "relock"
    /\ outcome' = "none"
    /\ UNCHANGED <<taskID, tasks, taskQueue1, taskQueue2, currentTask,
                   shutdownFlag, working, mutex, wakeup, walk, sdpc>>
    /\ UNCHANGED <<dbVars, runLog, started, cancelled, dbRemoved, lastCall>>
    /\ UNCHANGED lateTasks
    /\ UNCHANGED extVars

\* if (!shutdownFlag) lock.lock(): the lock, once the mutex is free
WorkerRelock ==
    /\ wpc = "relock"
    /\ mutex = "none"
    /\ mutex' = "worker"
    /\ wpc' = "loop"
    /\ UNCHANGED <<taskID, tasks, taskQueue1, taskQueue2, currentTask,
                   shutdownFlag, working, wakeup, walk, sdpc>>
    /\ UNCHANGED <<dbVars, histVars>>
    /\ UNCHANGED lateTasks
    /\ UNCHANGED extVars

(***************************************************************************)
(* ContentManager::shutdown, called by another thread.                     *)
(***************************************************************************)
\* uniqueLock()
ShutdownLock ==
    /\ sdpc = "idle"
    /\ mutex = "none"
    /\ mutex' = "shutdown"
    /\ sdpc' = "locked"
    /\ UNCHANGED <<taskID, tasks, taskQueue1, taskQueue2, currentTask,
                   shutdownFlag, working, wpc, wakeup, walk>>
    /\ UNCHANGED <<dbVars, histVars>>
    /\ UNCHANGED lateTasks
    /\ UNCHANGED extVars

\* shutdownFlag = true; notify(); lock.unlock()
ShutdownSignal ==
    /\ sdpc = "locked"
    /\ shutdownFlag' = TRUE
    /\ wakeup' = notify
    /\ mutex' = "none"
    /\ sdpc' = "joining"
    /\ UNCHANGED <<taskID, tasks, taskQueue1, taskQueue2, currentTask,
                   working, wpc, walk>>
    /\ UNCHANGED <<dbVars, histVars>>
    /\ UNCHANGED lateTasks
    /\ UNCHANGED extVars

\* threadRunner->join() returns once the worker thread has ended
ShutdownJoin ==
    /\ sdpc = "joining"
    /\ wpc = "exited"
    /\ sdpc' = "done"
    /\ UNCHANGED <<taskID, tasks, taskQueue1, taskQueue2, currentTask,
                   shutdownFlag, working, mutex, wpc, wakeup, walk>>
    /\ UNCHANGED <<dbVars, histVars>>
    /\ UNCHANGED lateTasks
    /\ UNCHANGED extVars

(***************************************************************************)
(* Calls that enqueue, from other threads.                                 *)
(***************************************************************************)
\* addFile(dirEnt, asSetting, async = true, lowPriority, cancellable)
AddFileAsync ==
    /\ \E path \in AddPaths, lowPriority \in BOOLEAN :
           addTask(tasks, CMAddFileTask(path, NoTask), lowPriority)
    /\ UNCHANGED <<currentTask, shutdownFlag, working, mutex, wpc, walk, sdpc>>
    /\ UNCHANGED <<dbVars, histVars>>
    /\ UNCHANGED extVars

\* rescanDirectory(adir, objectId), as timerNotify calls it
RescanDirectory ==
    /\ addTask(tasks, CMRescanDirectoryTask(2), TRUE)
    /\ UNCHANGED <<currentTask, shutdownFlag, working, mutex, wpc, walk, sdpc>>
    /\ UNCHANGED <<dbVars, histVars>>
    /\ UNCHANGED extVars

(***************************************************************************)
(* ContentManager::invalidateTask(taskID, ContentManagerTask).             *)
(***************************************************************************)
\* the test applied to the current task and to each queued task
MatchesIdOnly(t, id) == t = id
Matches(t, id) == t = id \/ tasks[t].parentID = id

\* the task list after invalidateTask(id)
Revalidates(ts, id) ==
    [t \in DOMAIN ts |->
        IF t \in LiveTasks THEN [ts[t] EXCEPT !.valid = ~Matches(t, id)] ELSE ts[t]]
invalidateTask(ts, id) ==
    [t \in DOMAIN ts |->
        IF t \in LiveTasks /\ Matches(t, id) THEN invalidate(ts[t]) ELSE ts[t]]

InvalidateTask ==
    /\ mutex = "none"
    /\ \E id \in 0..MaxTasks :
           /\ tasks' = invalidateTask(tasks, id)
           /\ cancelled' = cancelled \cup
                  {t \in LiveTasks : t = id \/ tasks[t].parentID = id}
    /\ UNCHANGED <<taskID, taskQueue1, taskQueue2, currentTask, shutdownFlag,
                   working, mutex, wpc, wakeup, walk, sdpc>>
    /\ UNCHANGED <<dbVars, runLog, started, outcome, dbRemoved, lastCall>>
    /\ UNCHANGED lateTasks
    /\ UNCHANGED extVars

(***************************************************************************)
(* The database, as the remove engine uses it.                             *)
(***************************************************************************)
\* ids database->loadObject finds; it raises for any other id
Present(objects) == {CDS_ID_ROOT, CDS_ID_FS_ROOT} \cup objects
\* database->findObjectIDByPath
findObjectIDByPath(objects, path) ==
    IF \E id \in Present(objects) : getLocation(id) = path
    THEN CHOOSE id \in Present(objects) : getLocation(id) = path
    ELSE INVALID_OBJECT_ID
\* the object and everything below it
Subtree(id) == {id} \cup {o \in PhysicalIds : getParentID(o) = id}
\* database->removeObject(id, all): the objects left
dbRemoveObject(objects, id) == objects \ Subtree(id)
\* the items among the objects
Items(objects) == {id \in objects : ~isContainer(id)}
\* database->removeObject and removeObjects, on the virtual containers:
\* they hold references to items, and when a removal takes the last item
\* (before, after: the items before and after it) they drop empty and are
\* removed
dbCollapse(chains, before, after) ==
    IF before # {} /\ after = {} THEN {} ELSE chains

(***************************************************************************)
(* ContentManager::_removeObject and updateAttachedResources, on a record  *)
(* st of what they change: objects (the database), cache (containerMap),   *)
(* removed (ids handed to database->removeObject), readd (path of an       *)
(* asynchronous addFile they enqueue, NoPath if none), threw (a runtime    *)
(* error left the call), parentRemoved (updateAttachedResources' result).  *)
(* dirOk: fs::directory_entry(parentPath) succeeds.                        *)
(***************************************************************************)
RECURSIVE removeObjectEngine(_, _, _, _)
RECURSIVE TreeOf(_)
RECURSIVE treeLoop(_, _, _)

\* the sentinel checks at the head of _removeObject
RejectsRootOnly(objectID) == objectID = CDS_ID_ROOT
Rejects(objectID) ==
    \/ objectID = CDS_ID_ROOT
    \/ objectID = CDS_ID_FS_ROOT
    \/ IS_FORBIDDEN_CDS_ID(objectID)

\* containerMap.clear()
keep(cache) == cache
clear(cache) == <<>>

updateAttachedResources(st, parentPath, dirOk) ==
    LET parentID == findObjectIDByPath(st.objects, parentPath)
    IN  IF parentID = INVALID_OBJECT_ID
        THEN [st EXCEPT !.parentRemoved = FALSE]
        ELSE LET inner == removeObjectEngine(st, parentID, FALSE, dirOk)
             IN  IF inner.threw
                 THEN inner
                 ELSE IF dirOk
                      THEN [inner EXCEPT !.readd = parentPath, !.parentRemoved = TRUE]
                      ELSE [inner EXCEPT !.parentRemoved = FALSE]

removeObjectEngine(st, objectID, rescanResource, dirOk) ==
    IF Rejects(objectID)
    THEN [st EXCEPT !.threw = TRUE]
    ELSE IF rescanResource /\ objectID \notin Present(st.objects)
         THEN [st EXCEPT !.threw = TRUE]
         ELSE LET s1 == IF rescanResource /\ hasResource(objectID)
                        THEN updateAttachedResources(
                                 st, parent_path(getLocation(objectID)), dirOk)
                        ELSE [st EXCEPT !.parentRemoved = FALSE]
              IN  IF s1.threw
                  THEN s1
                  ELSE LET s2 == [s1 EXCEPT !.cache = clear(s1.cache)]
                       IN  IF s2.parentRemoved
                           THEN s2
                           ELSE [s2 EXCEPT
                                    !.objects = dbRemoveObject(s2.objects, objectID),
                                    !.removed = s2.removed \cup {objectID}]

\* the outcomes of fs::directory_entry(parentPath) the call can meet
DirOutcomes(objectID, rescanResource) ==
    IF /\ rescanResource
       /\ hasResource(objectID)
       /\ objectID \in Present(dbObjects)
       /\ findObjectIDByPath(dbObjects, parent_path(getLocation(objectID)))
              # INVALID_OBJECT_ID
    THEN BOOLEAN
    ELSE {TRUE}

\* the engine's result on the current state
EngineResult(objectID, rescanResource, dirOk) ==
    removeObjectEngine(
        [objects |-> dbObjects, cache |-> containerMap, removed |-> {},
         readd |-> NoPath, threw |-> FALSE, parentRemoved |-> FALSE],
        objectID, rescanResource, dirOk)

\* the state after a call of _removeObject that gave r; the forced re-add of
\* the parent directory is addFile(dirEntry, asSetting, true, true, false)
ApplyEngine(r) ==
    /\ dbObjects' = r.objects
    /\ containerMap' = r.cache
    /\ dbRemoved' = dbRemoved \cup r.removed
    /\ dbChains' = dbCollapse(dbChains, Items(dbObjects), Items(r.objects))
    /\ IF r.readd # NoPath
       THEN addTask(tasks, CMAddFileTask(r.readd, NoTask), TRUE)
       ELSE UNCHANGED queueVars

\* CMRemoveObjectTask::run: _removeObject on the worker thread
RunRemove ==
    /\ wpc = "running"
    /\ tasks[currentTask].type = "RemoveObject"
    /\ \E dirOk \in DirOutcomes(tasks[currentTask].objectID,
                              tasks[currentTask].rescanResource) :
           LET r == EngineResult(tasks[currentTask].objectID,
                                 tasks[currentTask].rescanResource, dirOk)
               kind == IF r.threw THEN "runtime_error" ELSE "returned"
           IN  /\ ApplyEngine(r)
               /\ wpc' = Catch(kind).wpc
               /\ shutdownFlag' = Catch(kind).shutdownFlag
               /\ outcome' = kind
    /\ UNCHANGED <<currentTask, working, mutex, walk, sdpc>>
    /\ UNCHANGED <<runLog, started, cancelled, lastCall>>
    /\ UNCHANGED extVars

(***************************************************************************)
(* ContentManager::removeObject(adir, objectID, rescanResource, async, all)*)
(***************************************************************************)
\* the walk left out
keepTasks(ts, path) == ts
\* invalidateAddTask(t, path) for every task of ts that removeObject walks
invalidateAddTask(ts, path) ==
    [t \in DOMAIN ts |->
        IF /\ t \in LiveTasks
           /\ ts[t].type = "AddFile"
           /\ startswith(ts[t].path, path)
        THEN invalidate(ts[t])
        ELSE ts[t]]

\* AutoscanList::removeIfSubdir(path), on the entry of the registry: it is
\* detached, and its scan id revoked, if its location is path or below it
removeIfSubdir(ad, path) ==
    IF startswith(ad.location, path) THEN [ad EXCEPT !.scanValid = FALSE] ELSE ad

\* async: the object is loaded (a missing one ends the call), the autoscan
\* directories at or below a container are detached, the add tasks below it
\* are invalidated, and a remove task is enqueued
RemoveObjectAsync ==
    /\ Cardinality({t \in DOMAIN tasks : tasks[t].type = "RemoveObject"}) < MaxRemoves
    /\ \E objectID \in ObjectIds, rescanResource \in BOOLEAN :
           /\ lastCall' = [op |-> "async", id |-> objectID, result |-> "returned"]
           /\ IF objectID \notin Present(dbObjects)
              THEN UNCHANGED <<queueVars, adir>>
              ELSE /\ adir' = IF isContainer(objectID)
                              THEN removeIfSubdir(adir, getLocation(objectID))
                              ELSE adir
                   /\ addTask(IF isContainer(objectID)
                              THEN invalidateAddTask(tasks, getLocation(objectID))
                              ELSE tasks,
                              CMRemoveObjectTask(objectID, rescanResource), FALSE)
    /\ UNCHANGED <<currentTask, shutdownFlag, working, mutex, wpc, walk, sdpc>>
    /\ UNCHANGED <<dbVars, runLog, started, cancelled, outcome, dbRemoved>>
    /\ UNCHANGED <<chainVars, itemVars, sideVars, disk, dbFiles, dbAutoscan, scan, scanLog>>

\* the same call followed step by step, for the callers that race with the
\* worker.  First step (1548-1570): the object is loaded, and the autoscan
\* directories at or below a container are detached, outside the lock
RemoveObjectLoad ==
    /\ removal.pc = "idle"
    /\ Cardinality({t \in DOMAIN tasks : tasks[t].type = "RemoveObject"}) < MaxRemoves
    /\ \E objectID \in ObjectIds, rescanResource \in BOOLEAN :
           IF objectID \notin Present(dbObjects)
           THEN /\ lastCall' = [op |-> "async", id |-> objectID,
                                result |-> "returned"]
                /\ UNCHANGED <<removal, adir>>
           ELSE /\ removal' = [pc |-> IF isContainer(objectID)
                                      THEN "lock" ELSE "enqueue",
                               id |-> objectID,
                               rescanResource |-> rescanResource]
                /\ adir' = IF isContainer(objectID)
                           THEN removeIfSubdir(adir, getLocation(objectID))
                           ELSE adir
                /\ UNCHANGED lastCall
    /\ UNCHANGED <<schedVars, dbVars, lateTasks>>
    /\ UNCHANGED <<runLog, started, cancelled, outcome, dbRemoved>>
    /\ UNCHANGED <<chainVars, itemVars, disk, dbFiles, dbAutoscan, scan, scanLog>>
    /\ UNCHANGED <<addWalk, lastOpened, flagged, lastPlay, changeLog, notifying>>

\* second step (1572-1587): under the lock, which the end of the block
\* releases, the add tasks below the container are invalidated
RemoveObjectInvalidate ==
    /\ removal.pc = "lock"
    /\ mutex = "none"
    /\ tasks' = invalidateAddTask(tasks, getLocation(removal.id))
    /\ removal' = [removal EXCEPT !.pc = "enqueue"]
    /\ UNCHANGED <<taskID, taskQueue1, taskQueue2, currentTask, shutdownFlag,
                   working, mutex, wpc, wakeup, walk, sdpc>>
    /\ UNCHANGED <<dbVars, histVars, lateTasks>>
    /\ UNCHANGED <<chainVars, itemVars, scanVars>>
    /\ UNCHANGED <<addWalk, lastOpened, flagged, lastPlay, changeLog, notifying>>

\* last step (1590): addTask(task) takes the lock again and enqueues
RemoveObjectEnqueue ==
    /\ removal.pc = "enqueue"
    /\ addTask(tasks, CMRemoveObjectTask(removal.id, removal.rescanResource),
               FALSE)
    /\ removal' = NoRemoval
    /\ lastCall' = [op |-> "async", id |-> removal.id, result |-> "returned"]
    /\ UNCHANGED <<currentTask, shutdownFlag, working, mutex, wpc, walk, sdpc>>
    /\ UNCHANGED <<dbVars, runLog, started, cancelled, outcome, dbRemoved>>
    /\ UNCHANGED <<chainVars, itemVars, scanVars>>
    /\ UNCHANGED <<addWalk, lastOpened, flagged, lastPlay, changeLog, notifying>>

\* not async: _removeObject on the caller's thread; its error reaches the caller
RemoveObjectSync ==
    /\ \E objectID \in ObjectIds, rescanResource \in BOOLEAN :
       \E dirOk \in DirOutcomes(objectID, rescanResource) :
           LET r == EngineResult(objectID, rescanResource, dirOk)
           IN  /\ ApplyEngine(r)
               /\ lastCall' = [op |-> "sync", id |-> objectID,
                               result |-> IF r.threw THEN "error" ELSE "returned"]
    /\ UNCHANGED <<currentTask, shutdownFlag, working, mutex, wpc, walk, sdpc>>
    /\ UNCHANGED <<runLog, started, cancelled, outcome>>
    /\ UNCHANGED extVars

(***************************************************************************)
(* The virtual layout: ContentManager::addContainerChain and               *)
(* addContainerTree over the container cache.  The database keeps the      *)
(* containers of every chain it was asked for; asked for a chain, it       *)
(* creates the containers the chain lacks and returns the id of the last   *)
(* one together with the ids it created.                                   *)
(***************************************************************************)
\* database->addContainerChain(chain, ..., &containerID, updateID, ...)
dbAddContainerChain(chains, chain) ==
    [chains |-> chains \cup ChainPrefixes(chain),
     id |-> ChainId(chain),
     created |-> ChainPrefixes(chain) \ chains]

\* the cache with the containers of the chains cs loaded into it
Cached(cache, cs) ==
    [c \in DOMAIN cache \cup cs |-> IF c \in cs THEN ChainId(c) ELSE cache[c]]

\* addContainerChain(chain): chains and cache after it, and what it returns
chainAdd(chains, cache, chain) ==
    IF chain \in DOMAIN cache
    THEN [chains |-> chains, cache |-> cache, id |-> cache[chain], isNew |-> FALSE]
    ELSE LET r == dbAddContainerChain(chains, chain)
         IN  [chains |-> r.chains, cache |-> Cached(cache, r.created),
              id |-> r.id, isNew |-> TRUE]

\* chains as addContainerTree receives them: the titles of the items; the
\* last one has an item without title
TreeChains == {<<"A">>, <<"A", "B">>, <<"A", "">>}
\* fmt::format("{}{}{}", tree, VIRTUAL_CONTAINER_SEPARATOR, item->getTitle())
TreeOf(titles) ==
    IF titles = <<>> THEN <<>>
    ELSE TreeOf(SubSeq(titles, 1, Len(titles) - 1)) \o <<"/", titles[Len(titles)]>>

\* the loop of addContainerTree over the items from index i on; st holds
\* chains, cache, id (result) and isNew so far
treeLoop(st, titles, i) ==
    IF i > Len(titles)
    THEN st
    ELSE IF titles[i] = ""
         THEN [st EXCEPT !.id = INVALID_OBJECT_ID, !.isNew = FALSE]
         ELSE LET tree == TreeOf(SubSeq(titles, 1, i))
              IN  IF tree \notin DOMAIN st.cache
                  THEN LET r == dbAddContainerChain(st.chains, tree)
                       IN  treeLoop([chains |-> r.chains,
                                     cache |-> Cached(st.cache, {tree}),
                                     id |-> r.id, isNew |-> TRUE],
                                    titles, i + 1)
                  ELSE treeLoop([st EXCEPT !.id = st.cache[tree]], titles, i + 1)

\* addContainerTree(chain)
treeAdd(chains, cache, titles) ==
    treeLoop([chains |-> chains, cache |-> cache, id |-> INVALID_OBJECT_ID,
              isNew |-> FALSE], titles, 1)

\* MetadataHandler::getMetaFieldName of the fields the chain add looks at
M_TITLE == "dc:title"
M_ARTIST == "upnp:artist"
M_ALBUMARTIST == "upnp:albumArtist"
M_DESCRIPTION == "dc:description"
M_TRACKNUMBER == "upnp:originalTrackNumber"
MetaKeys == {M_TITLE, M_ARTIST, M_ALBUMARTIST, M_DESCRIPTION, M_TRACKNUMBER}
MetaValues == {"x", "y"}
\* the metadata maps an object can carry; the empty one is also what
\* addContainerChain starts from when origObj is nullptr
Metadata == UNION {[K -> MetaValues] : K \in SUBSET MetaKeys}
NoMetadata == <<>>

\* lastMetadata[key] = val
put(md, key, val) ==
    [k \in DOMAIN md \cup {key} |-> IF k = key THEN val ELSE md[k]]

\* a chain add that leaves the metadata as the source object has it
keepMetadata(md) == md

\* copy artist to album artist if empty
copyArtist(md) ==
    IF M_ALBUMARTIST \notin DOMAIN md /\ M_ARTIST \in DOMAIN md
    THEN put(md, M_ALBUMARTIST, md[M_ARTIST])
    ELSE md

\* the fields not wanted for a container, erased where present
unwanted == {M_DESCRIPTION, M_TITLE, M_TRACKNUMBER, M_ARTIST}
dropUnwanted(md) == [k \in DOMAIN md \ unwanted |-> md[k]]

\* splitString(newChain, '/').back()
lastSegment(chain) == chain[Len(chain)]

\* lastMetadata as database->addContainerChain receives it on a cache miss
lastMetadata(md, chain) ==
    put(dropUnwanted(copyArtist(md)), M_TITLE, lastSegment(chain))

\* a chain-add call that gave r is recorded with the metadata of origObj
\* and the metadata the database received, and the id is remembered if it
\* is the first valid one the process returned for the chain
RecordAdd(op, chain, r, source, handed) ==
    /\ lastAdd' = [op |-> op, chain |-> chain, id |-> r.id, isNew |-> r.isNew,
                   cached |-> chain \in DOMAIN r.cache /\ r.cache[chain] = r.id,
                   source |-> source, handed |-> handed]
    /\ firstIds' = IF chain \in DOMAIN firstIds \/ r.id = INVALID_OBJECT_ID
                   THEN firstIds
                   ELSE [c \in DOMAIN firstIds \cup {chain} |->
                            IF c = chain THEN r.id ELSE firstIds[c]]

\* a chain add on behalf of a caller that does not look at the result
addContainerChain ==
    /\ \E chain \in Chains :
           LET r == chainAdd(dbChains, containerMap, chain)
           IN  /\ dbChains' = r.chains
               /\ containerMap' = r.cache
    /\ UNCHANGED <<schedVars, dbObjects, histVars>>
    /\ UNCHANGED lateTasks
    /\ UNCHANGED extVars

\* addContainerChain(chain, lastClass, lastRefID, origObj), its result and
\* the metadata it hands to the database observed; origObj carries one of
\* the metadata maps in sources
AddContainerChainFrom(sources) ==
    /\ \E chain \in Chains, md \in sources :
           LET r == chainAdd(dbChains, containerMap, chain)
           IN  /\ dbChains' = r.chains
               /\ containerMap' = r.cache
               /\ RecordAdd("chain", chain, r, md,
                            IF r.isNew THEN lastMetadata(md, chain)
                            ELSE NoMetadata)
    /\ UNCHANGED <<schedVars, dbObjects, histVars>>
    /\ UNCHANGED lateTasks
    /\ UNCHANGED <<itemVars, scanVars, sideVars>>

\* addContainerChain(chain) without an original object
AddContainerChain == AddContainerChainFrom({NoMetadata})

\* addContainerChain(chain, lastClass, lastRefID, origObj)
AddContainerChainOf == AddContainerChainFrom(Metadata)

\* addContainerTree(chain), its result observed
AddContainerTree ==
    /\ \E titles \in TreeChains :
           LET r == treeAdd(dbChains, containerMap, titles)
           IN  /\ dbChains' = r.chains
               /\ containerMap' = r.cache
               /\ RecordAdd("tree", TreeOf(titles), r, NoMetadata, NoMetadata)
    /\ UNCHANGED <<schedVars, dbObjects, histVars>>
    /\ UNCHANGED lateTasks
    /\ UNCHANGED <<itemVars, scanVars, sideVars>>

(***************************************************************************)
(* The incremental scan: timerNotify, rescanDirectory, _rescanDirectory,   *)
(* finishScan and the tail of CMRescanDirectoryTask::run, for the autoscan *)
(* directory /m (container 2).  /m holds up to one regular file and one    *)
(* sub-directory, whose one file never changes; no entry is hidden or a   *)
(* symbolic link.                                                          *)
(* An mtime is a number from 1 to MaxTime.  The catalog records, for an    *)
(* item, the mtime its file had when it was added, which stands for the    *)
(* content read at that time; for the sub-directory it records 1.          *)
(***************************************************************************)
\* id of the container of /m/s
SubDirId == 4
\* the states of /m on disk
Disks == [Names -> 0..MaxTime]
\* names of the entries of directory d
Entries(d) == {n \in Names : d[n] > 0}
\* greatest element of a set of mtimes, 0 for the empty set
MaxOf(S) == IF S = {} THEN 0 ELSE CHOOSE m \in S : \A x \in S : x <= m

\* AutoscanDirectory::getPreviousLMT(location)
getPreviousLMT(ad) == ad.previousLMT
\* AutoscanDirectory::setCurrentLMT(location, lmt)
setCurrentLMT(ad, lmt) == [ad EXCEPT !.currentLMT = lmt]
\* AutoscanDirectory::incTaskCount, decTaskCount
incTaskCount(ad) == [ad EXCEPT !.taskCount = @ + 1]
decTaskCount(ad) == [ad EXCEPT !.taskCount = @ - 1]
\* AutoscanDirectory::updateLMT: once no task of the directory is in flight
\* the memo is promoted; the result tells whether the memo changed
updateLMT(ad) ==
    IF ad.taskCount <= 0
    THEN [adir |-> [ad EXCEPT !.previousLMT = ad.currentLMT],
          changed |-> ad.previousLMT # ad.currentLMT]
    ELSE [adir |-> ad, changed |-> FALSE]

\* last_modified_new_max as the scan initialises it from the memo it read
ZeroMax(previous) == 0
InitialMax(previous) == previous
\* the test that makes the scan re-add a file the catalog knows
NeverChanged(currentMax, lwt) == FALSE
ChangedOrSame(currentMax, lwt) == currentMax <= lwt
Changed(currentMax, lwt) == currentMax < lwt
\* if (last_modified_new_max < lwt) last_modified_new_max = lwt
raise(newMax, lwt) == IF newMax < lwt THEN lwt ELSE newMax
\* the value finishScan stores as current_lmt
rawLMT(lmt) == lmt
storedLMT(lmt) == IF lmt > 0 THEN lmt ELSE 1
\* finishScan(adir, location, parent, lmt) on the autoscan directory ...
finishScan(ad, lmt) == setCurrentLMT(ad, storedLMT(lmt))
\* ... and on the catalog: the container of /m gets lmt as its mtime
stampParent(files, lmt) == IF lmt > 0 THEN [files EXCEPT !["."] = lmt] ELSE files
\* database->getObjects(containerID, !recursive): the children of /m the
\* catalog holds, items only for a non-recursive scan
getObjects(files, recursive) ==
    {n \in Names : files[n] > 0 /\ (recursive \/ ~IsDir(n))}
\* the catalog left as it is
keepObjects(files, list) == files
\* database->removeObjects(list)
removeObjects(files, list) ==
    [n \in DOMAIN files |-> IF n \in list THEN 0 ELSE files[n]]
\* the items the catalog holds below /m
FileItems(files) == {n \in Names : ~IsDir(n) /\ files[n] > 0}
\* every file of directory d whose object in the catalog is out of date has
\* an mtime above the memo
Visible(d, files, memo) ==
    \A n \in Entries(d) :
        (~IsDir(n) /\ files[n] > 0 /\ files[n] # d[n]) => d[n] > memo

\* the running task is the scan of /m
ScansRoot ==
    /\ wpc = "running"
    /\ tasks[currentTask].type = "RescanDirectory"
    /\ tasks[currentTask].objectID \in {2, INVALID_OBJECT_ID}

\* AutoscanDirectory::setObjectID
setObjectID(ad, id) == [ad EXCEPT !.objectID = id]

\* ContentManager::removeAutoscanDirectory(adir), from another thread (the
\* user removes the autoscan directory)
removeAutoscanDirectory(ad) ==
    [ad EXCEPT !.taskCount = -1, !.scanValid = FALSE]
RemoveAutoscanDirectory ==
    /\ adir.scanValid
    /\ adir' = removeAutoscanDirectory(adir)
    /\ dbAutoscan' = [dbAutoscan EXCEPT !.present = FALSE]
    /\ UNCHANGED <<schedVars, dbVars, histVars>>
    /\ UNCHANGED lateTasks
    /\ UNCHANGED <<chainVars, itemVars, sideVars, disk, dbFiles, scan, scanLog>>

\* timerNotify for the autoscan directory: rescanDirectory(adir, objectID)
\* unless tasks of the directory are in flight
TimerNotify ==
    /\ adir.scanValid
    /\ ~(adir.taskCount > 0)
    /\ adir' = incTaskCount(adir)
    /\ addTask(tasks, CMRescanDirectoryTask(adir.objectID), TRUE)
    /\ UNCHANGED <<currentTask, shutdownFlag, working, mutex, wpc, walk, sdpc>>
    /\ UNCHANGED <<dbVars, histVars>>
    /\ UNCHANGED <<chainVars, itemVars, sideVars, disk, dbFiles, dbAutoscan, scan, scanLog>>

\* rescanDirectory(adir, objectId) for the container of /m: timerNotify calls
\* it for the autoscan directory of /m, and the scan of / (750) for the
\* autoscan directory of /
RescanContainer ==
    /\ adir.scanValid
    /\ ~(adir.taskCount > 0)
    /\ adir' = incTaskCount(adir)
    /\ addTask(tasks, CMRescanDirectoryTask(2), TRUE)
    /\ UNCHANGED <<currentTask, shutdownFlag, working, mutex, wpc, walk, sdpc>>
    /\ UNCHANGED <<dbVars, histVars>>
    /\ UNCHANGED <<chainVars, itemVars, sideVars, disk, dbFiles, dbAutoscan, scan, scanLog>>

\* timerNotify followed step by step, for each thread that can be inside it:
\* the timer thread, and the thread of setAutoscanDirectory, which calls it
\* for the directory it has put in the registry (1736, 1783)
Callers == {"timer", "setAutoscanDirectory"}

\* first step (284-288): the directory is looked up and its counters are
\* tested; nothing in ContentManager changes the count of active scans, the
\* directory has no scan of that kind.  A failed test ends the call
TimerNotifyTest(c) ==
    /\ c \notin notifying
    /\ adir.scanValid
    /\ ~(adir.taskCount > 0)
    /\ notifying' = notifying \cup {c}
    /\ UNCHANGED <<schedVars, dbVars, histVars, lateTasks>>
    /\ UNCHANGED <<chainVars, itemVars, scanVars>>
    /\ UNCHANGED <<addWalk, lastOpened, flagged, lastPlay, changeLog, removal>>

\* second step (290): rescanDirectory(adir, adir->getObjectID())
TimerNotifyRescan(c) ==
    /\ c \in notifying
    /\ notifying' = notifying \ {c}
    /\ adir' = incTaskCount(adir)
    /\ addTask(tasks, CMRescanDirectoryTask(adir.objectID), TRUE)
    /\ UNCHANGED <<currentTask, shutdownFlag, working, mutex, wpc, walk, sdpc>>
    /\ UNCHANGED <<dbVars, histVars>>
    /\ UNCHANGED <<chainVars, itemVars, disk, dbFiles, dbAutoscan, scan, scanLog>>
    /\ UNCHANGED <<addWalk, lastOpened, flagged, lastPlay, changeLog, removal>>

TimerNotifyEnter == \E c \in Callers : TimerNotifyTest(c)
TimerNotifyCall == \E c \in Callers : TimerNotifyRescan(c)

\* files and directories appear in /m, change and disappear while no task of
\* the autoscan directory is queued or running
DiskChange ==
    /\ wpc \notin {"dispatch", "running"}
    /\ taskQueue1 = <<>> /\ taskQueue2 = <<>>
    /\ \E d \in Disks : d # disk /\ disk' = d
    /\ scanLog' = NoScanLog
    /\ UNCHANGED <<schedVars, dbVars, histVars>>
    /\ UNCHANGED lateTasks
    /\ UNCHANGED <<chainVars, itemVars, sideVars, dbFiles, adir, dbAutoscan, scan>>

\* _rescanDirectory from its entry to the test of the directory iterator:
\* the container is resolved and the location opened.  isDirectory and opens
\* are what fs::is_directory(adir->getLocation()) and the opening of the
\* location give.  The result tells whether the walk begins ("scan") or the
\* function returns, the autoscan directory, the objects, whether
\* removeAutoscanDirectory was called (removed) and whether
\* removeObject(adir, containerID, false) was (removes)
resolveContainer(ad, objects, containerID, isDirectory, opens) ==
    LET loaded == containerID # INVALID_OBJECT_ID /\ containerID \in Present(objects)
        r == [how |-> "return", adir |-> ad, objects |-> objects,
              removed |-> FALSE, removes |-> FALSE]
    IN  IF containerID # INVALID_OBJECT_ID /\ ~loaded /\ ~ad.persistent
        THEN [r EXCEPT !.adir = removeAutoscanDirectory(ad), !.removed = TRUE]
        ELSE IF ~loaded /\ ~isDirectory
        THEN IF ad.persistent
             THEN [r EXCEPT !.adir = setObjectID(ad, INVALID_OBJECT_ID)]
             ELSE [r EXCEPT !.adir = removeAutoscanDirectory(
                                         setObjectID(ad, INVALID_OBJECT_ID)),
                            !.removed = TRUE]
        ELSE LET found == IF loaded THEN ad ELSE setObjectID(ad, 2)
                 known == IF loaded THEN objects ELSE objects \cup {2}
             IN  IF opens
                 THEN [r EXCEPT !.how = "scan", !.adir = found, !.objects = known]
                 ELSE IF ad.persistent
                 THEN [r EXCEPT !.adir = setObjectID(removeIfSubdir(found, PathM),
                                                     INVALID_OBJECT_ID),
                                !.objects = known, !.removes = TRUE]
                 ELSE [r EXCEPT !.adir = removeAutoscanDirectory(
                                             removeIfSubdir(found, PathM)),
                                !.objects = known, !.removed = TRUE,
                                !.removes = TRUE]

\* the scan finds the target of the autoscan directory absent: the container
\* cannot be loaded and the location is not a directory, or the location
\* cannot be opened
TargetAbsent(containerID, isDirectory, opens) ==
    \/ containerID \notin PhysicalIds \cap dbObjects /\ ~isDirectory
    \/ ~opens

\* _rescanDirectory up to the loop: the container is resolved and the
\* location opened; if the walk begins, the children the catalog knows are
\* listed, the memo is read and current_lmt is reset.  removeObject(adir,
\* containerID, false) is the asynchronous removal of the container
ScanHead(isDirectory, opens) ==
    /\ ScansRoot
    /\ scan.pc = "idle"
    /\ LET r == resolveContainer(adir, dbObjects, tasks[currentTask].objectID,
                                 isDirectory, opens)
       IN  /\ dbObjects' = r.objects
           /\ dbAutoscan' = IF r.removed THEN [dbAutoscan EXCEPT !.present = FALSE]
                            ELSE dbAutoscan
           /\ IF r.removes
              THEN addTask(invalidateAddTask(tasks, PathM),
                           CMRemoveObjectTask(2, FALSE), FALSE)
              ELSE UNCHANGED queueVars
           /\ IF r.how = "return"
              THEN /\ adir' = r.adir
                   /\ scan' = [scan EXCEPT !.pc = "returned"]
                   /\ scanLog' = [NoScanLog EXCEPT !.ended =
                                     IF TargetAbsent(tasks[currentTask].objectID,
                                                     isDirectory, opens)
                                     THEN "absent" ELSE "none"]
                   /\ walk' = 0
              ELSE /\ adir' = setCurrentLMT(r.adir, 0)
                   /\ scan' = [pc |-> "walk", todo |-> Entries(disk),
                               list |-> getObjects(dbFiles, adir.recursive),
                               curMax |-> getPreviousLMT(adir),
                               newMax |-> InitialMax(getPreviousLMT(adir))]
                   /\ scanLog' = [ended |-> "running", start |-> getPreviousLMT(adir),
                                  visible |-> Visible(disk, dbFiles, getPreviousLMT(adir)),
                                  finishes |-> 0,
                                  known |-> getObjects(dbFiles, adir.recursive),
                                  met |-> {}, removed |-> {},
                                  readded |-> {}, added |-> {},
                                  by |-> currentTask, spawned |-> {}]
                   /\ walk' = Cardinality(Entries(disk))
    /\ UNCHANGED <<currentTask, shutdownFlag, working, mutex, wpc, sdpc>>
    /\ UNCHANGED <<dbChains, containerMap, histVars>>
    /\ UNCHANGED <<chainVars, itemVars, sideVars, disk, dbFiles>>

\* the scan of a location that is a directory and can be opened
ScanStart == ScanHead(TRUE, TRUE)

\* the scan calls finishScan(lmt) and returns from _rescanDirectory
FinishAndReturn(lmt, how) ==
    /\ adir' = finishScan(adir, lmt)
    /\ dbFiles' = stampParent(dbFiles, lmt)
    /\ scan' = [scan EXCEPT !.pc = "returned", !.newMax = lmt]
    /\ scanLog' = [scanLog EXCEPT !.ended = how, !.finishes = @ + 1]

\* one iteration of the loop of _rescanDirectory, for directory entry n
ScanOne(n) ==
    LET lwt == disk[n]
        rest == [scan EXCEPT !.todo = @ \ {n}, !.list = @ \ {n}]
        meets == [scanLog EXCEPT !.met = @ \cup {n}]
    IN  IF StopWalk
        THEN \* break
             /\ scan' = [scan EXCEPT !.pc = "finish"]
             /\ UNCHANGED <<queueVars, containerMap, dbFiles, adir, scanLog, walk>>
        ELSE IF ~adir.scanValid
        THEN \* the autoscan directory was removed meanwhile
             /\ FinishAndReturn(scan.newMax, "revoked")
             /\ UNCHANGED <<queueVars, containerMap, walk>>
        ELSE IF ~IsDir(n)
        THEN /\ walk' = walk - 1
             /\ IF dbFiles[n] > 0 /\ ~Changed(scan.curMax, lwt)
                THEN \* known and not modified
                     /\ scan' = rest
                     /\ scanLog' = meets
                     /\ UNCHANGED <<dbFiles, containerMap>>
                ELSE \* modified: removed and added again; unknown: added
                     /\ scan' = [rest EXCEPT !.newMax = raise(@, lwt)]
                     /\ dbFiles' = [dbFiles EXCEPT ![n] = lwt]
                     /\ containerMap' = IF dbFiles[n] > 0 THEN clear(containerMap)
                                        ELSE containerMap
                     /\ scanLog' = IF dbFiles[n] > 0
                                   THEN [meets EXCEPT !.readded = @ \cup {n}]
                                   ELSE [meets EXCEPT !.added = @ \cup {n}]
             /\ UNCHANGED <<queueVars, adir>>
        ELSE IF ~adir.recursive
        THEN \* a directory, ignored by a non-recursive scan
             /\ walk' = walk - 1
             /\ scan' = [scan EXCEPT !.todo = @ \ {n}]
             /\ scanLog' = meets
             /\ UNCHANGED <<queueVars, containerMap, dbFiles, adir>>
        ELSE IF dbFiles[n] > 0
        THEN \* a known sub-directory: rescanDirectory(adir, objectID)
             /\ walk' = walk - 1
             /\ scan' = [rest EXCEPT !.newMax = raise(@, lwt)]
             /\ adir' = incTaskCount(adir)
             /\ addTask(tasks, CMRescanDirectoryTask(SubDirId), TRUE)
             /\ scanLog' = [meets EXCEPT !.spawned = @ \cup {taskID}]
             /\ UNCHANGED <<containerMap, dbFiles>>
        ELSE \* an unknown sub-directory: the scan goes for the lock
             /\ walk' = walk - 1
             /\ scan' = [rest EXCEPT !.newMax = raise(@, lwt), !.pc = "subdir"]
             /\ scanLog' = meets
             /\ UNCHANGED <<queueVars, containerMap, dbFiles, adir>>

ScanEntry ==
    /\ ScansRoot
    /\ scan.pc = "walk"
    /\ \E n \in scan.todo : ScanOne(n)
    /\ UNCHANGED <<currentTask, shutdownFlag, working, mutex, wpc, sdpc>>
    /\ UNCHANGED <<dbObjects, dbChains, histVars>>
    /\ UNCHANGED <<chainVars, itemVars, sideVars, disk, dbAutoscan>>

\* under the lock, the scan checks the autoscan directory again and then
\* enqueues the recursive add of the unknown sub-directory
ScanAddSubDir ==
    /\ ScansRoot
    /\ scan.pc = "subdir"
    /\ mutex = "none"
    /\ IF ~adir.scanValid
       THEN /\ FinishAndReturn(scan.newMax, "revoked")
            /\ UNCHANGED queueVars
       ELSE /\ scan' = [scan EXCEPT !.pc = "walk"]
            /\ adir' = incTaskCount(adir)
            /\ addTask(tasks, CMAddFileTask(PathMS, currentTask), TRUE)
            /\ scanLog' = [scanLog EXCEPT !.spawned = @ \cup {taskID}]
            /\ UNCHANGED dbFiles
    /\ UNCHANGED <<currentTask, shutdownFlag, working, mutex, wpc, walk, sdpc>>
    /\ UNCHANGED <<dbVars, histVars>>
    /\ UNCHANGED <<chainVars, itemVars, sideVars, disk, dbAutoscan>>

\* after the loop: finishScan, and unless the scan was told to stop, the
\* objects whose entries were not met are removed from the catalog
ScanFinish ==
    /\ ScansRoot
    /\ scan.pc = "finish" \/ (scan.pc = "walk" /\ scan.todo = {})
    /\ adir' = finishScan(adir, scan.newMax)
    /\ scan' = [scan EXCEPT !.pc = "returned"]
    /\ IF StopWalk
       THEN /\ dbFiles' = stampParent(dbFiles, scan.newMax)
            /\ scanLog' = [scanLog EXCEPT !.ended = "stopped", !.finishes = @ + 1]
       ELSE /\ dbFiles' = removeObjects(stampParent(dbFiles, scan.newMax), scan.list)
            /\ scanLog' = [scanLog EXCEPT
                               !.ended = "complete", !.finishes = @ + 1,
                               !.removed = {n \in Names : dbFiles[n] > 0
                                                          /\ dbFiles'[n] = 0}]
    /\ dbChains' = dbCollapse(dbChains, FileItems(dbFiles), FileItems(dbFiles'))
    /\ walk' = 0
    /\ UNCHANGED <<taskID, tasks, taskQueue1, taskQueue2, currentTask,
                   shutdownFlag, working, mutex, wpc, wakeup, sdpc>>
    /\ UNCHANGED <<dbObjects, containerMap, histVars>>
    /\ UNCHANGED lateTasks
    /\ UNCHANGED <<chainVars, itemVars, sideVars, disk, dbAutoscan>>

\* the tail of CMRescanDirectoryTask::run and of CMAddFileTask::run:
\* decTaskCount, updateLMT and, if the memo changed, updateAutoscanDirectory
RunTail ==
    LET r == updateLMT(decTaskCount(adir))
    IN  /\ adir' = r.adir
        /\ dbAutoscan' = IF r.changed
                         THEN [dbAutoscan EXCEPT !.lmt = r.adir.previousLMT]
                         ELSE dbAutoscan

\* _rescanDirectory has returned: run() of the scan of /m ends
ScanReturn ==
    /\ ScansRoot
    /\ scan.pc = "returned"
    /\ RunTail
    /\ scan' = NoScan
    /\ wpc' = Catch("returned").wpc
    /\ shutdownFlag' = Catch("returned").shutdownFlag
    /\ outcome' = "returned"
    /\ UNCHANGED <<taskID, tasks, taskQueue1, taskQueue2, currentTask,
                   working, mutex, wakeup, walk, sdpc>>
    /\ UNCHANGED <<dbVars, runLog, started, cancelled, dbRemoved, lastCall>>
    /\ UNCHANGED lateTasks
    /\ UNCHANGED <<chainVars, itemVars, sideVars, disk, dbFiles, scanLog>>

\* run() of a task the scan enqueued for the sub-directory: the recursive
\* add creates the container of /m/s, the rescan of /m/s finds it unchanged
RunSubDir ==
    /\ wpc = "running"
    /\ \/ /\ tasks[currentTask].type = "AddFile"
          /\ tasks[currentTask].path = PathMS
          /\ dbFiles' = IF disk["s"] > 0 THEN [dbFiles EXCEPT !["s"] = 1] ELSE dbFiles
       \/ /\ tasks[currentTask].type = "RescanDirectory"
          /\ tasks[currentTask].objectID = SubDirId
          /\ UNCHANGED dbFiles
    /\ RunTail
    /\ wpc' = Catch("returned").wpc
    /\ shutdownFlag' = Catch("returned").shutdownFlag
    /\ outcome' = "returned"
    /\ walk' = 0
    /\ UNCHANGED <<taskID, tasks, taskQueue1, taskQueue2, currentTask,
                   working, mutex, wakeup, sdpc>>
    /\ UNCHANGED <<dbVars, runLog, started, cancelled, dbRemoved, lastCall>>
    /\ UNCHANGED lateTasks
    /\ UNCHANGED <<chainVars, itemVars, sideVars, disk, scan, scanLog>>

(***************************************************************************)
(* ContentManager::addRecursive over a directory D the catalog has not     *)
(* seen, called without task and autoscan directory, with createSingleItem *)
(* and addObject.  An entry of D is a regular file ("file"), an empty      *)
(* sub-directory ("dir"), a sub-directory that holds a file ("full"), or   *)
(* an entry createObjectFromFile ignores ("skip").  The database creates   *)
(* the container of D with the first object added below it.  Counted are   *)
(* the signals addObject sends for the parent of the parent of the item    *)
(* it adds; the container the database reports as changed is forwarded     *)
(* apart from them.                                                        *)
(***************************************************************************)
Kinds == {"file", "dir", "full", "skip"}
\* the orders in which a directory of up to MaxWalk entries is iterated
Walks == UNION {[1..n -> Kinds] : n \in 0..MaxWalk}

\* addObject: if (firstChild) firstChild = (getChildCount(parent_id) == 1);
\* the signal for the parent of the parent is sent if it is still set
sendsForGrandparent(firstChild, childCount) == firstChild /\ childCount = 1

\* addRecursive: if (last_modified_current_max < lwt)
\*                   last_modified_new_max = lwt
assignMax(currentMax, newMax, lwt) == IF currentMax < lwt THEN lwt ELSE newMax

\* addRecursive(adir, subDir, ...) up to its loop; memo is what
\* adir->getPreviousLMT gives for the directory, 0 without autoscan directory
AddRecursiveStart ==
    /\ addWalk.pc = "idle"
    /\ \E w \in Walks, memo \in 0..MaxTime :
           addWalk' = [pc |-> "walk", todo |-> w, firstChild |-> TRUE,
                       children |-> 0, items |-> 0, signals |-> 0,
                       curMax |-> memo, newMax |-> memo, seen |-> 0]
    /\ UNCHANGED <<schedVars, dbVars, histVars>>
    /\ UNCHANGED lateTasks
    /\ UNCHANGED <<chainVars, itemVars, scanVars, lastOpened, flagged, lastPlay, changeLog,
                   removal, notifying>>

\* one iteration of the loop: createSingleItem(subDirEnt, ..., firstChild),
\* which adds an item with addObject(obj, firstChild), then
\* if (obj != nullptr) firstChild = false and the running maximum takes the
\* mtime lwt of the entry, and the recursion into a sub-directory, which
\* adds its file below a new container of its own; seen is the greatest
\* mtime of the entries processed so far
AddRecursiveEntry ==
    /\ addWalk.pc = "walk"
    /\ addWalk.todo # <<>>
    /\ \E lwt \in 1..MaxTime :
         LET kind == Head(addWalk.todo)
             rest == [addWalk EXCEPT !.todo = Tail(@)]
             made == [rest EXCEPT
                        !.firstChild = FALSE,
                        !.newMax = assignMax(addWalk.curMax, @, lwt),
                        !.seen = IF @ < lwt THEN lwt ELSE @]
         IN  addWalk' =
               CASE kind = "skip" -> rest
                 [] kind = "dir" -> made
                 [] kind = "full" -> [made EXCEPT !.children = @ + 1]
                 [] kind = "file" ->
                      [made EXCEPT
                         !.children = @ + 1,
                         !.items = @ + 1,
                         !.signals = IF sendsForGrandparent(addWalk.firstChild,
                                                            addWalk.children + 1)
                                     THEN @ + 1 ELSE @]
    /\ UNCHANGED <<schedVars, dbVars, histVars>>
    /\ UNCHANGED lateTasks
    /\ UNCHANGED <<chainVars, itemVars, scanVars, lastOpened, flagged, lastPlay, changeLog,
                   removal, notifying>>

\* the loop is over: finishScan(adir, path, parentContainer,
\* last_modified_new_max), which does nothing without autoscan directory
AddRecursiveEnd ==
    /\ addWalk.pc = "walk"
    /\ addWalk.todo = <<>>
    /\ addWalk' = [addWalk EXCEPT !.pc = "done"]
    /\ UNCHANGED <<schedVars, dbVars, histVars>>
    /\ UNCHANGED lateTasks
    /\ UNCHANGED <<chainVars, itemVars, scanVars, lastOpened, flagged, lastPlay, changeLog,
                   removal, notifying>>

NextWalk ==
    \/ AddRecursiveStart
    \/ AddRecursiveEntry
    \/ AddRecursiveEnd
SpecWalk == Init /\ [][NextWalk]_vars

(***************************************************************************)
(* PlayHookHandler::operator() (src/src/content/playhook_handler.cc), with *)
(* ContentManager::triggerPlayHook; every played item is of a kind that is *)
(* marked as played.                                                       *)
(***************************************************************************)
\* constexpr int limit = 5
limit == 5
\* std::find and erase: the list without the parent, if it is in it
erase(list, parent) == SelectSeq(list, LAMBDA x : x # parent)
\* lastOpened.insert(lastOpened.begin(), parent)
insert(list, parent) == <<parent>> \o list
\* if (lastOpened.size() > limit) lastOpened.pop_back()
keepAll(list) == list
pop_back(list) == IF Len(list) > limit THEN SubSeq(list, 1, Len(list) - 1) ELSE list

\* number of play events so far
Plays == MaxOf({lastPlay[p] : p \in ParentIds})

\* a play event for the item of parent p
PlayHook ==
    /\ Plays < MaxPlays
    /\ \E p \in ParentIds :
           /\ flagged' = flagged \cup {p}
           /\ lastOpened' = pop_back(insert(erase(lastOpened, p), p))
           /\ lastPlay' = [lastPlay EXCEPT ![p] = Plays + 1]
    /\ UNCHANGED <<schedVars, dbVars, histVars>>
    /\ UNCHANGED lateTasks
    /\ UNCHANGED <<chainVars, itemVars, scanVars, addWalk, changeLog, removal, notifying>>

NextPlay ==
    \/ PlayHook
SpecPlay == Init /\ [][NextPlay]_vars

(***************************************************************************)
(* PlayHookHandler::operator() on several threads.  Nothing in it takes a  *)
(* lock, so the handlers interleave between their accesses to lastOpened:  *)
(* std::find, erase, insert, and the size test with pop_back.  An erase    *)
(* through an iterator obtained before another thread changed the vector   *)
(* is undefined: it removes the element now at that position, or leaves    *)
(* the elements as they are.                                               *)
(***************************************************************************)
\* invocations a thread makes
MaxRuns == 2
\* the parents of the items played concurrently
HookParents == {11, 12, 13}
\* position of parent in the list, 0 for end()
find(list, parent) ==
    IF \E i \in 1..Len(list) : list[i] = parent
    THEN CHOOSE i \in 1..Len(list) :
             list[i] = parent /\ \A j \in 1..(i - 1) : list[j] # parent
    ELSE 0
\* the list without the element at position i
eraseAt(list, i) ==
    IF i \in 1..Len(list)
    THEN SubSeq(list, 1, i - 1) \o SubSeq(list, i + 1, Len(list))
    ELSE list
\* what lastOpened.erase(itr) can leave for the thread whose iterator is at
\* position i of the list it saw
erasures(list, i, seen) ==
    IF list = seen THEN {eraseAt(list, i)} ELSE {eraseAt(list, i), list}

\* triggerPlayHook(obj) and std::find(lastOpened.begin(), lastOpened.end(), parent)
HookFind(t) ==
    /\ hooks[t].pc = "idle"
    /\ hooks[t].runs < MaxRuns
    /\ \E p \in HookParents :
           /\ flagged' = flagged \cup {p}
           /\ hooks' = [hooks EXCEPT ![t] =
                            [pc |-> "found", parent |-> p,
                             at |-> find(lastOpened, p), seen |-> lastOpened,
                             runs |-> hooks[t].runs + 1]]
    /\ UNCHANGED lastOpened

\* if (itr != lastOpened.cend()) lastOpened.erase(itr)
HookErase(t) ==
    /\ hooks[t].pc = "found"
    /\ lastOpened' \in IF hooks[t].at # 0
                        THEN erasures(lastOpened, hooks[t].at, hooks[t].seen)
                        ELSE {lastOpened}
    /\ hooks' = [hooks EXCEPT ![t].pc = "insert"]
    /\ UNCHANGED flagged

\* lastOpened.insert(lastOpened.begin(), obj->getParentID())
HookInsert(t) ==
    /\ hooks[t].pc = "insert"
    /\ lastOpened' = insert(lastOpened, hooks[t].parent)
    /\ hooks' = [hooks EXCEPT ![t].pc = "limit"]
    /\ UNCHANGED flagged

\* if (lastOpened.size() > limit) lastOpened.pop_back(); the handler ends
HookPop(t) ==
    /\ hooks[t].pc = "limit"
    /\ lastOpened' = pop_back(lastOpened)
    /\ hooks' = [hooks EXCEPT ![t] = [NoHook EXCEPT !.runs = hooks[t].runs]]
    /\ UNCHANGED flagged

\* what no step of a handler changes
HookFrame ==
    /\ UNCHANGED <<schedVars, dbVars, histVars, lateTasks>>
    /\ UNCHANGED <<chainVars, scanVars, dbItem, lastUpdate>>
    /\ UNCHANGED <<addWalk, lastPlay, changeLog, removal, notifying>>

PlayHookFind == (\E t \in Threads : HookFind(t)) /\ HookFrame
PlayHookErase == (\E t \in Threads : HookErase(t)) /\ HookFrame
PlayHookInsert == (\E t \in Threads : HookInsert(t)) /\ HookFrame
PlayHookPop == (\E t \in Threads : HookPop(t)) /\ HookFrame

NextHooks ==
    \/ PlayHookFind
    \/ PlayHookErase
    \/ PlayHookInsert
    \/ PlayHookPop
SpecHooks == Init /\ [][NextHooks]_vars

(***************************************************************************)
(* ContentManager::updateObject(objectID, parameters) on an item, with     *)
(* updateCdsObject<CdsItem>.  The item has one resource; its protocol info *)
(* is the sequence of the fields renderProtocolInfo joins with ':'.  The   *)
(* description is the metadata field M_DESCRIPTION, "" when the item has   *)
(* none.                                                                   *)
(***************************************************************************)
\* renderProtocolInfo(mimetype, protocol)
renderProtocolInfo(mimetype, protocol) == <<protocol, "*", mimetype, "*">>
\* the item as the import stores it, with or without description
ImportedItems ==
    {[title |-> "t", class |-> "c", location |-> "l", mimeType |-> "m",
      protocolInfo |-> renderProtocolInfo("m", "http-get"), bookMarkPos |-> 0,
      description |-> d] : d \in {"", "d"}}
\* the keys updateCdsObject reads and the values a caller passes for them,
\* the empty string among them
ParamKeys == {"title", "class", "mime-type", "description", "location",
              "protocol", "bookmarkpos"}
ParamValues(k) == IF k = "bookmarkpos" THEN {"", "7"} ELSE {"", "n"}
\* std::map<std::string, std::string> m = { { "bookmarkpos", bookMarkPos } }
BookmarkOnly == [k \in {"bookmarkpos"} |-> "7"]
\* the parameter maps of the callers: one entry per key, or the bookmark alone
Parameters ==
    {m \in [ParamKeys -> {"", "n", "7"}] : \A k \in ParamKeys : m[k] \in ParamValues(k)}
        \cup {BookmarkOnly}

\* getValueOrDefault(parameters, key)
getValueOrDefault(m, key) == IF key \in DOMAIN m THEN m[key] ELSE ""
\* stoiString on the positions the callers pass
stoiString(str) == IF str = "7" THEN 7 ELSE 0
\* CdsItem::equals(obj, true)
equals(a, b) == a = b

\* updateCdsObject<CdsItem>: the clone after the setters
updateCdsObject(item, parameters) ==
    LET title == getValueOrDefault(parameters, "title")
        upnp_class == getValueOrDefault(parameters, "class")
        mimetype == getValueOrDefault(parameters, "mime-type")
        description == getValueOrDefault(parameters, "description")
        location == getValueOrDefault(parameters, "location")
        protocol == getValueOrDefault(parameters, "protocol")
        bookmarkpos == getValueOrDefault(parameters, "bookmarkpos")
        c1 == [item EXCEPT
                  !.title = IF title # "" THEN title ELSE @,
                  !.class = IF upnp_class # "" THEN upnp_class ELSE @,
                  !.location = IF location # "" THEN location ELSE @]
        c2 == [c1 EXCEPT
                  !.bookMarkPos = IF bookmarkpos # "" THEN stoiString(bookmarkpos)
                                  ELSE @]
        c3 == IF mimetype # "" /\ protocol # ""
              THEN [c2 EXCEPT !.mimeType = mimetype,
                              !.protocolInfo = renderProtocolInfo(mimetype, protocol)]
              ELSE IF mimetype = "" /\ protocol # ""
              THEN [c2 EXCEPT !.protocolInfo =
                                  renderProtocolInfo(c2.mimeType, protocol)]
              ELSE IF mimetype # ""
              THEN [c2 EXCEPT !.mimeType = mimetype,
                              !.protocolInfo =
                                  renderProtocolInfo(mimetype, c2.protocolInfo[1])]
              ELSE c2
    IN  IF description # ""
        THEN \* setMetadata(M_DESCRIPTION, description)
             [c3 EXCEPT !.description = description]
        ELSE \* removeMetadata(M_DESCRIPTION)
             [c3 EXCEPT !.description = ""]

\* the import adds the item to the catalog
ImportItem ==
    /\ dbItem = NoItem
    /\ dbItem' \in ImportedItems
    /\ UNCHANGED <<lastUpdate, hooks>>
    /\ UNCHANGED <<schedVars, dbVars, histVars, lateTasks>>
    /\ UNCHANGED <<chainVars, scanVars, sideVars>>

\* updateObject(objectID, parameters) for the item: the clone is written to
\* the database, and the change signalled, if it differs from the item
UpdateItem ==
    /\ dbItem # NoItem
    /\ \E parameters \in Parameters :
           LET clone == updateCdsObject(dbItem, parameters)
               differs == ~equals(dbItem, clone)
           IN  /\ dbItem' = IF differs THEN clone ELSE dbItem
               /\ lastUpdate' = [parameters |-> parameters, before |-> dbItem,
                                 wrote |-> differs]
    /\ UNCHANGED hooks
    /\ UNCHANGED <<schedVars, dbVars, histVars, lateTasks>>
    /\ UNCHANGED <<chainVars, scanVars, sideVars>>

NextItem ==
    \/ ImportItem
    \/ UpdateItem
SpecItem == Init /\ [][NextItem]_vars

(***************************************************************************)
(* Change notification: the calls of the content manager that change the   *)
(* catalog through the database, and what each does with the changed-      *)
(* containers result.  An entry of changeLog is the mutation itself         *)
(* ("db") or its result handed to the update manager ("upnp") or to the    *)
(* session manager ("ui"); m numbers the mutations.                        *)
(***************************************************************************)
\* mutations applied so far
Changes == Cardinality({i \in 1..Len(changeLog) : changeLog[i].to = "db"})
\* the log after a mutation whose result goes to the given subscribers, in
\* the given order
Mutation(log, op, subscribers) ==
    LET m == Cardinality({i \in 1..Len(log) : log[i].to = "db"}) + 1
    IN  log \o <<[m |-> m, op |-> op, to |-> "db"]>>
            \o [i \in 1..Len(subscribers) |->
                   [m |-> m, op |-> op, to |-> subscribers[i]]]

\* what each call forwards the result of its mutation to:
\* addObject, ensurePathExistence, updateCdsObject, a chain add that
\* created a container
ForwardsUpnpUi == <<"upnp", "ui">>
\* _removeObject and the batch removal of _rescanDirectory
ForwardsUiUpnp == <<"ui", "upnp">>
\* finishScan (the mtime stamp of the parent) and assignFanArt: the result
\* stays in the local variable
ForwardsNothing == <<>>
\* updateObject(obj, send_updates)
ForwardsIf(send_updates) == IF send_updates THEN <<"upnp", "ui">> ELSE <<>>

Notifies(op, subscribers) ==
    /\ Changes < MaxChanges
    /\ changeLog' = Mutation(changeLog, op, subscribers)
    /\ UNCHANGED <<schedVars, dbVars, histVars>>
    /\ UNCHANGED lateTasks
    /\ UNCHANGED <<chainVars, itemVars, scanVars, addWalk, lastOpened, flagged, lastPlay,
                   removal, notifying>>

\* addObject(obj, firstChild): database->addObject, then containerChanged
\* and containerChangedUI
AddObject == Notifies("addObject", ForwardsUpnpUi)
\* updateObject(obj, send_updates): database->updateObject
UpdateObject ==
    \E send_updates \in BOOLEAN : Notifies("updateObject", ForwardsIf(send_updates))
\* _removeObject: database->removeObject
RemoveObject == Notifies("removeObject", ForwardsUiUpnp)
\* _rescanDirectory: database->removeObjects(list)
RemoveObjects == Notifies("removeObjects", ForwardsUiUpnp)
\* addContainerChain creating a container: database->addContainerChain
CreateContainerChain == Notifies("addContainerChain", ForwardsUpnpUi)
\* finishScan with lmt > 0: parent->setMTime(lmt); database->updateObject
StampParent == Notifies("finishScan", ForwardsNothing)
\* assignFanArt: database->updateObject(container, &containerChanged)
AssignFanArt == Notifies("assignFanArt", ForwardsNothing)

NextNotify ==
    \/ AddObject
    \/ UpdateObject
    \/ RemoveObject
    \/ RemoveObjects
    \/ CreateContainerChain
    \/ StampParent
    \/ AssignFanArt
SpecNotify == Init /\ [][NextNotify]_vars

(***************************************************************************)
(* Adds and removes of the same path: addFile(async) for a path the        *)
(* catalog holds, followed by removeObject(async) of the object.           *)
(***************************************************************************)
\* paths of the objects of the catalog
KnownPaths == {getLocation(id) : id \in PhysicalIds}

\* addFile(dirEnt, asSetting, async = true, lowPriority, cancellable) for a
\* file or directory the catalog holds
AddKnownFileAsync ==
    /\ \E path \in KnownPaths, lowPriority \in BOOLEAN :
           addTask(tasks, CMAddFileTask(path, NoTask), lowPriority)
    /\ UNCHANGED <<currentTask, shutdownFlag, working, mutex, wpc, walk, sdpc>>
    /\ UNCHANGED <<dbVars, histVars>>
    /\ UNCHANGED extVars

NextOrder ==
    \/ WorkerStart
    \/ WorkerDequeue
    \/ WorkerWait
    \/ WorkerWake
    \/ WorkerInvoke
    \/ RunEntry
    \/ RunReturn
    \/ RunRemove
    \/ WorkerAfter
    \/ WorkerRelock
    \/ AddKnownFileAsync
    \/ RemoveObjectAsync
SpecOrder == Init /\ [][NextOrder]_vars

Next ==
    \/ WorkerStart
    \/ WorkerExit
    \/ WorkerDequeue
    \/ WorkerWait
    \/ WorkerWake
    \/ WorkerSpuriousWake
    \/ WorkerInvoke
    \/ RunEntry
    \/ RunReturn
    \/ RunThrow
    \/ WorkerAfter
    \/ WorkerRelock
    \/ ShutdownLock
    \/ ShutdownSignal
    \/ ShutdownJoin
    \/ AddFileAsync
    \/ RescanDirectory
    \/ InvalidateTask

Spec == Init /\ [][Next]_vars

\* the remove engine with the scheduler that runs its tasks
NextRemove ==
    \/ WorkerStart
    \/ WorkerDequeue
    \/ WorkerWait
    \/ WorkerWake
    \/ WorkerInvoke
    \/ RunEntry
    \/ RunReturn
    \/ RunRemove
    \/ WorkerAfter
    \/ WorkerRelock
    \/ RemoveObjectAsync
    \/ RemoveObjectSync
    \/ addContainerChain

SpecRemove == Init /\ [][NextRemove]_vars

\* every operation that reads or writes a task's valid flag
NextCancel ==
    \/ WorkerStart
    \/ WorkerDequeue
    \/ WorkerWait
    \/ WorkerWake
    \/ WorkerInvoke
    \/ RunEntry
    \/ RunReturn
    \/ RunRemove
    \/ WorkerAfter
    \/ WorkerRelock
    \/ AddFileAsync
    \/ InvalidateTask
    \/ RemoveObjectAsync

SpecCancel == Init /\ [][NextCancel]_vars

\* the layout and the removals that clear its cache
NextChain ==
    \/ AddContainerChain
    \/ AddContainerTree
    \/ RemoveObjectSync

SpecChain == Init /\ [][NextChain]_vars

\* chain adds on behalf of objects with metadata, and tree adds
NextMeta ==
    \/ AddContainerChainOf
    \/ AddContainerTree

SpecMeta == Init /\ [][NextMeta]_vars

\* the scans of the autoscan directory, run by the worker, between changes
\* of the directory on disk
InitRescan ==
    /\ InitChain
    /\ InitScan({NoEntries}, BOOLEAN)
    /\ InitSide
    /\ InitCore
NextRescan ==
    \/ WorkerStart
    \/ WorkerDequeue
    \/ WorkerWait
    \/ WorkerWake
    \/ WorkerInvoke
    \/ WorkerAfter
    \/ WorkerRelock
    \/ TimerNotify
    \/ DiskChange
    \/ ScanStart
    \/ ScanEntry
    \/ ScanAddSubDir
    \/ ScanFinish
    \/ ScanReturn
    \/ RunSubDir
SpecRescan == InitRescan /\ [][NextRescan]_vars

\* scans of a directory that changes, with a layout that places the items of
\* the catalog in virtual containers
PlaceItem ==
    /\ scan.pc = "idle"
    /\ FileItems(dbFiles) # {}
    /\ AddContainerChain
NextStale ==
    \/ WorkerStart
    \/ WorkerDequeue
    \/ WorkerWait
    \/ WorkerWake
    \/ WorkerInvoke
    \/ WorkerAfter
    \/ WorkerRelock
    \/ TimerNotify
    \/ DiskChange
    \/ ScanStart
    \/ ScanEntry
    \/ ScanAddSubDir
    \/ ScanFinish
    \/ ScanReturn
    \/ RunSubDir
    \/ PlaceItem
SpecStale == InitRescan /\ [][NextStale]_vars

\* a recursive autoscan directory, of /m or of the directory / above it, whose
\* scan of /m races with the removal of a container
InitDoomed ==
    /\ disk \in Disks
    /\ dbFiles = NoFiles
    /\ \E loc \in {PathRoot, PathM} :
           adir = [NewAutoscan(TRUE) EXCEPT
                       !.location = loc,
                       !.objectID = IF loc = PathRoot THEN CDS_ID_FS_ROOT ELSE 2]
    /\ dbAutoscan = [present |-> TRUE, lmt |-> 0]
    /\ scan = NoScan
    /\ scanLog = NoScanLog
    /\ InitChain
    /\ InitSide
    /\ InitCore

NextDoomed ==
    \/ WorkerStart
    \/ WorkerDequeue
    \/ WorkerWait
    \/ WorkerWake
    \/ WorkerInvoke
    \/ WorkerAfter
    \/ WorkerRelock
    \/ RescanContainer
    \/ ScanStart
    \/ ScanEntry
    \/ ScanAddSubDir
    \/ ScanFinish
    \/ ScanReturn
    \/ RunSubDir
    \/ RunRemove
    \/ RemoveObjectLoad
    \/ RemoveObjectInvalidate
    \/ RemoveObjectEnqueue

SpecDoomed == InitDoomed /\ [][NextDoomed]_vars

\* scans of an autoscan directory, persistent or not, whose container may
\* have been removed and whose location may be gone or unreadable
InitPersist ==
    /\ InitChain
    /\ disk \in Disks
    /\ dbFiles = NoFiles
    /\ \E p \in BOOLEAN : adir = [NewAutoscan(FALSE) EXCEPT !.persistent = p]
    /\ dbAutoscan = [present |-> TRUE, lmt |-> 0]
    /\ scan = NoScan
    /\ scanLog = NoScanLog
    /\ InitSide
    /\ InitCore
\* the scan of a location in whatever state it is
ScanAnyTarget == \E isDirectory, opens \in BOOLEAN : ScanHead(isDirectory, opens)
NextPersist ==
    \/ WorkerStart
    \/ WorkerDequeue
    \/ WorkerWait
    \/ WorkerWake
    \/ WorkerInvoke
    \/ WorkerAfter
    \/ WorkerRelock
    \/ TimerNotify
    \/ ScanAnyTarget
    \/ ScanEntry
    \/ ScanFinish
    \/ ScanReturn
    \/ RunRemove
    \/ RemoveObjectSync
SpecPersist == InitPersist /\ [][NextPersist]_vars

\* scans of a directory that does not change, with what cuts a scan short:
\* the removal of the autoscan directory, the invalidation of the task, and
\* shutdown
InitStop ==
    /\ InitChain
    /\ InitScan(Disks, BOOLEAN)
    /\ InitSide
    /\ InitCore
NextStop ==
    \/ WorkerStart
    \/ WorkerExit
    \/ WorkerDequeue
    \/ WorkerWait
    \/ WorkerWake
    \/ WorkerInvoke
    \/ WorkerAfter
    \/ WorkerRelock
    \/ TimerNotify
    \/ ScanStart
    \/ ScanEntry
    \/ ScanAddSubDir
    \/ ScanFinish
    \/ ScanReturn
    \/ RunSubDir
    \/ RemoveAutoscanDirectory
    \/ InvalidateTask
    \/ ShutdownLock
    \/ ShutdownSignal
    \/ ShutdownJoin
SpecStop == InitStop /\ [][NextStop]_vars

\* recursive scans of a directory whose sub-directory the catalog may know
\* already, and the invalidation of tasks
InitSpawn ==
    /\ InitChain
    /\ disk \in Disks
    /\ dbFiles \in {NoFiles, [NoFiles EXCEPT !["s"] = 1]}
    /\ adir = NewAutoscan(TRUE)
    /\ dbAutoscan = [present |-> TRUE, lmt |-> 0]
    /\ scan = NoScan
    /\ scanLog = NoScanLog
    /\ InitSide
    /\ InitCore
NextSpawn ==
    \/ WorkerStart
    \/ WorkerDequeue
    \/ WorkerWait
    \/ WorkerWake
    \/ WorkerInvoke
    \/ WorkerAfter
    \/ WorkerRelock
    \/ TimerNotify
    \/ ScanStart
    \/ ScanEntry
    \/ ScanAddSubDir
    \/ ScanFinish
    \/ ScanReturn
    \/ RunSubDir
    \/ InvalidateTask
SpecSpawn == InitSpawn /\ [][NextSpawn]_vars

\* scans of a directory that changes between them, with the shutdown and the
\* removal of the autoscan directory that stop a scan
NextSweep ==
    \/ WorkerStart
    \/ WorkerExit
    \/ WorkerDequeue
    \/ WorkerWait
    \/ WorkerWake
    \/ WorkerInvoke
    \/ WorkerAfter
    \/ WorkerRelock
    \/ TimerNotify
    \/ ScanStart
    \/ ScanEntry
    \/ ScanAddSubDir
    \/ ScanFinish
    \/ ScanReturn
    \/ RunSubDir
    \/ RemoveAutoscanDirectory
    \/ ShutdownLock
    \/ ShutdownSignal
    \/ ShutdownJoin
    \/ DiskChange

SpecSweep == InitStop /\ [][NextSweep]_vars

\* timed scans that the timer thread and setAutoscanDirectory start
NextTimer ==
    \/ WorkerStart
    \/ WorkerDequeue
    \/ WorkerWait
    \/ WorkerWake
    \/ WorkerInvoke
    \/ WorkerAfter
    \/ WorkerRelock
    \/ TimerNotifyEnter
    \/ TimerNotifyCall
    \/ ScanStart
    \/ ScanEntry
    \/ ScanAddSubDir
    \/ ScanFinish
    \/ ScanReturn
    \/ RunSubDir

SpecTimer == InitStop /\ [][NextTimer]_vars

(***************************************************************************)
(* ContentManager::getTasklist (built without ONLINE_SERVICES).            *)
(***************************************************************************)
isValid(t) == tasks[t].valid
getTasklist ==
    IF currentTask = NoTask
    THEN <<>>
    ELSE IF \E t \in Range(taskQueue2) : isValid(t)
         THEN <<>>
         ELSE <<currentTask>> \o SelectSeq(taskQueue1, isValid)

(***************************************************************************)
(* The worker thread and the thread inside shutdown() are scheduled, and   *)
(* each of their steps ends: weak fairness of the steps they take on their *)
(* own.  Nothing obliges a collaborator to raise, a condition variable to  *)
(* wake unnotified, or another thread to call in.                          *)
(***************************************************************************)
WorkerStep ==
    \/ WorkerStart
    \/ WorkerExit
    \/ WorkerDequeue
    \/ WorkerWait
    \/ WorkerWake
    \/ WorkerInvoke
    \/ RunEntry
    \/ RunReturn
    \/ WorkerAfter
    \/ WorkerRelock

NextShutdown ==
    \/ WorkerStart
    \/ WorkerExit
    \/ WorkerDequeue
    \/ WorkerWait
    \/ WorkerWake
    \/ WorkerInvoke
    \/ RunEntry
    \/ RunReturn
    \/ RunThrow
    \/ WorkerAfter
    \/ WorkerRelock
    \/ ShutdownLock
    \/ ShutdownSignal
    \/ ShutdownJoin
    \/ AddFileAsync
    \/ RescanDirectory

FairSpec ==
    /\ Init
    /\ [][NextShutdown]_vars
    /\ WF_vars(WorkerStep)
    /\ WF_vars(ShutdownSignal)
    /\ WF_vars(ShutdownJoin)

\* the worker with callers that enqueue and invalidate, when shutdown is
\* never requested and every run() returns; the worker thread is scheduled
\* again and again, and nothing else is obliged to happen
NextLive ==
    \/ WorkerStart
    \/ WorkerDequeue
    \/ WorkerWait
    \/ WorkerWake
    \/ WorkerSpuriousWake
    \/ WorkerInvoke
    \/ RunEntry
    \/ RunReturn
    \/ WorkerAfter
    \/ WorkerRelock
    \/ AddFileAsync
    \/ RescanDirectory
    \/ InvalidateTask

LiveSpec ==
    /\ Init
    /\ [][NextLive]_vars
    /\ WF_vars(WorkerStep)

(***************************************************************************)
(* Properties.                                                             *)
(***************************************************************************)
Queue(k) == IF k = 1 THEN taskQueue1 ELSE taskQueue2
Increasing(q) == \A i, j \in 1..Len(q) : i < j => q[i] < q[j]
\* ROOT, FS_ROOT and the forbidden id of the catalog
Sentinels == {CDS_ID_BLACKHOLE, CDS_ID_ROOT, CDS_ID_FS_ROOT}

\* C1: FIFO within priority.  Task ids are handed out in enqueue order, so:
\* of two tasks taken from the same queue the one enqueued first was dequeued
\* first; a task still queued was enqueued after every task already taken
\* from its queue; and each queue holds its tasks in enqueue order.
C1_FifoWithinPriority ==
    /\ \A i, j \in 1..Len(runLog) :
           (i < j /\ runLog[i].queue = runLog[j].queue)
               => runLog[i].task < runLog[j].task
    /\ \A i \in 1..Len(runLog) :
           \A t \in Range(Queue(runLog[i].queue)) : runLog[i].task < t
    /\ Increasing(taskQueue1)
    /\ Increasing(taskQueue2)
    /\ \A t \in started : \E i \in 1..Len(runLog) : runLog[i].task = t

\* two tasks of one queue have both been dequeued and run
C1_Witness ==
    /\ Len(runLog) = 2
    /\ runLog[1].queue = runLog[2].queue
    /\ {runLog[1].task, runLog[2].task} \subseteq started

\* C2 as stated: a low-priority task enqueued before a normal-priority task
\* is dequeued (and so run) after it.
C2_LowAlwaysAfterNormal ==
    \A i, j \in 1..Len(runLog) :
        (runLog[i].queue = 2 /\ runLog[j].queue = 1
            /\ runLog[i].task < runLog[j].task) => j < i

\* C2 amended: while a normal-priority task is queued, no queued low-priority
\* task leaves its queue; so a low-priority task that is still queued when a
\* normal-priority task is enqueued is dequeued after it.
C2_QueuedLowWaitsForNormal ==
    [][\A H \in Range(taskQueue1) : \A L \in Range(taskQueue2) :
           L \in Range(taskQueue2')]_vars

\* a normal-priority task enqueued after a low-priority one ran before it
C2_Witness ==
    \E i, j \in 1..Len(runLog) :
        /\ i < j
        /\ runLog[i].queue = 1
        /\ runLog[j].queue = 2
        /\ runLog[j].task < runLog[i].task
        /\ {runLog[i].task, runLog[j].task} \subseteq started

C4_InvalidationMonotonicIdempotent ==
    /\ [][\A t \in DOMAIN tasks : ~tasks[t].valid => ~tasks'[t].valid]_vars
    /\ [][(taskID' = taskID /\ tasks' # tasks) =>
              \A id \in 0..MaxTasks :
                  tasks' = invalidateTask(tasks, id)
                      => invalidateTask(tasks, id)' = tasks']_vars

\* an add task that removeObject invalidated was later dequeued and skipped,
\* after an invalidateTask call on a task
C4_Witness ==
    /\ currentTask # NoTask
    /\ tasks[currentTask].type = "AddFile"
    /\ ~tasks[currentTask].valid
    /\ currentTask \notin cancelled
    /\ cancelled # {}
    /\ outcome = "skipped"

\* C5: a runtime error of run() leaves the worker alive, on its way back to
\* the head of its loop, with the shutdown flag as it was; the shutdown error
\* sets the flag, and with the flag set the worker leaves its loop.
C5_ErrorsStayInWorker ==
    /\ [](wpc # "terminated")
    /\ [][(outcome' = "runtime_error" /\ outcome # "runtime_error")
             => (wpc' = "after" /\ shutdownFlag' = shutdownFlag)]_vars
    /\ [][(wpc = "after" /\ outcome = "runtime_error" /\ ~shutdownFlag /\ wpc' # wpc)
             => wpc' = "relock"]_vars
    /\ [](outcome = "ServerShutdownException" => (shutdownFlag /\ wpc = "after"))
    /\ [][(shutdownFlag /\ wpc \in {"after", "loop"} /\ wpc' # wpc)
             => wpc' = (IF wpc = "after" THEN "loop" ELSE "exited")]_vars

\* a run() has raised a runtime error, no shutdown is under way, and another
\* task waits to be dequeued
C5_Witness ==
    /\ outcome = "runtime_error"
    /\ wpc = "after"
    /\ ~shutdownFlag
    /\ taskQueue1 # <<>>

\* C6 as stated: once the shutdown flag is set no step changes a queue or
\* the task-id counter.
C6_EnqueueAfterShutdownNoOp ==
    [][shutdownFlag =>
          /\ taskQueue1' = taskQueue1
          /\ taskQueue2' = taskQueue2
          /\ taskID' = taskID]_vars

\* C6 amended: a task enqueued while the shutdown flag is set got an id and
\* is in a queue, and stays there: it is never dequeued, so never run.
C6_LateTasksNeverLeave ==
    \A t \in lateTasks :
        /\ t < taskID
        /\ t \in Range(taskQueue1) \cup Range(taskQueue2)
        /\ t \notin started
        /\ t # currentTask

\* a task was enqueued after the flag was set, and the worker has ended
C6_Witness ==
    /\ lateTasks # {}
    /\ shutdownFlag
    /\ wpc = "exited"

C8_TasklistCurrentHiLo ==
    currentTask # NoTask =>
        getTasklist = <<currentTask>> \o SelectSeq(taskQueue1, isValid)
                          \o SelectSeq(taskQueue2, isValid)

C10_CacheEmptyAfterAnyRemove ==
    [][(RemoveObjectSync \/ RunRemove) => containerMap' = <<>>]_vars

\* C10 amended: after any call of the remove engine that returns without an
\* error, the container cache is empty.
C10_CacheEmptyAfterRemoveReturns ==
    [][(\/ lastCall'.op = "sync" /\ lastCall'.result = "returned" /\ RemoveObjectSync
        \/ outcome' = "returned" /\ wpc = "running" /\ RunRemove)
           => containerMap' = <<>>]_vars

\* a synchronous remove has returned and left the cache empty although
\* chains had been created and cached
C10_Witness ==
    /\ lastCall.op = "sync"
    /\ lastCall.result = "returned"
    /\ dbChains = Chains
    /\ dbRemoved # {}
    /\ containerMap = <<>>

\* C11: after a chain-add call that returned a valid id for a chain, the
\* cache holds the chain, and with the id the call returned.
C11_ChainCachedAfterAdd ==
    (lastAdd.op # "none" /\ lastAdd.id # INVALID_OBJECT_ID) => lastAdd.cached

\* C12: a chain-add call for a chain the process has added before returns
\* the id the first call returned, and is_new = false.
C12_ChainAddIdempotent ==
    [][(lastAdd' # lastAdd /\ lastAdd'.chain \in DOMAIN firstIds)
          => (lastAdd'.id = firstIds[lastAdd'.chain] /\ ~lastAdd'.isNew)]_vars

(***************************************************************************)
(* The incremental scan.                                                   *)
(***************************************************************************)
OrOne(m) == IF m > 0 THEN m ELSE 1
\* mtimes of the children of /m on disk, and of those a scan examines
ChildTimes == {disk[n] : n \in Entries(disk)}
ExaminedTimes == {disk[n] : n \in {e \in Entries(disk) : ~IsDir(e) \/ adir.recursive}}
\* the last scan of /m ran to its end, the tasks it enqueued are done and the
\* memo is promoted; the directory has not changed since
ScanSettled ==
    /\ scanLog.ended = "complete"
    /\ scan.pc = "idle"
    /\ adir.taskCount = 0

\* C13 (as stated): after a successful rescan of a directory its memo
\* previous_lmt is the greatest mtime of the children the directory has now,
\* or 1 if it has none.
C13_MemoIsMaxOfChildren ==
    ScanSettled => adir.previousLMT = OrOne(MaxOf(ChildTimes))

\* C13 (amended): after a successful rescan of a directory its memo is the
\* greatest of the memo the rescan started from and the mtimes of the entries
\* it examined (regular files, and sub-directories if the scan is recursive),
\* or 1 if that is 0.
C13_MemoIsMaxOfPreviousAndExamined ==
    ScanSettled =>
        adir.previousLMT = OrOne(MaxOf({scanLog.start} \cup ExaminedTimes))

\* a successful rescan of a directory whose files are all older than the memo
\* it started from
C13_Witness ==
    /\ ScanSettled
    /\ scanLog.start > MaxOf(ChildTimes)
    /\ adir.previousLMT = scanLog.start

\* what a full add of directory d into an empty catalog records below /m
FullAdd(d, recursive) ==
    [n \in Names |-> IF d[n] = 0 \/ (IsDir(n) /\ ~recursive) THEN 0
                     ELSE IF IsDir(n) THEN 1 ELSE d[n]]
CatalogBelowRoot == [n \in Names |-> dbFiles[n]]

C15_RevokedScanStopsMutating ==
    /\ []((scanLog.ended = "revoked" /\ scan.pc = "returned") =>
             (scanLog.finishes = 1 /\ adir.currentLMT = OrOne(scan.newMax)))
    /\ [][(scanLog.ended = "revoked" /\ ScansRoot) =>
             (adir' = adir /\ dbAutoscan' = dbAutoscan /\ dbFiles' = dbFiles)]_vars

\* C16: a scan that has reset current_lmt to 0 and is then cut short by the
\* invalidation of its task or by shutdown calls finishScan, once, with the
\* maximum it has so far: current_lmt is not left at 0.
C16_StoppedScanFinishes ==
    scanLog.ended = "stopped" =>
        /\ scanLog.finishes = 1
        /\ adir.currentLMT # 0
        /\ scan.pc = "returned" => adir.currentLMT = OrOne(scan.newMax)

\* a scan cut short with entries left to visit and nothing newer than the
\* memo seen
C16_Witness ==
    /\ scanLog.ended = "stopped"
    /\ scan.pc = "returned"
    /\ scan.todo # {}
    /\ scan.newMax = 0

\* C17: whenever the first item is added below a newly created container
\* during a walk, whatever the order of the entries (a sub-directory may
\* come before the first file), exactly one container-changed signal is
\* sent for the parent of that container.
C17_OneSignalForGrandparent ==
    addWalk.items >= 1 => addWalk.signals = 1

(***************************************************************************)
(* The play hook.                                                          *)
(***************************************************************************)
\* parents played more recently than p
Later(p) == {q \in ParentIds : lastPlay[q] > lastPlay[p]}

\* C18: after any sequence of play events, lastOpened lists parents of
\* played items, the most recently played first and none twice; it holds
\* the parent of the last event in front and exactly the (at most 5) most
\* recently played parents; the events p1, p2, p1, p3, p4, p5, p6 leave
\* [p6, p5, p4, p3, p1].
C18_MostRecentFirstAtMostFive ==
    /\ Len(lastOpened) <= 5
    /\ \A i, j \in 1..Len(lastOpened) :
           i < j => lastPlay[lastOpened[i]] > lastPlay[lastOpened[j]]
    /\ \A p \in ParentIds :
           (\E i \in 1..Len(lastOpened) : lastOpened[i] = p)
               <=> (lastPlay[p] > 0 /\ Cardinality(Later(p)) < 5)
    /\ lastPlay = (11 :> 3 @@ 12 :> 2 @@ 13 :> 4 @@ 14 :> 5 @@ 15 :> 6 @@ 16 :> 7)
           => lastOpened = <<16, 15, 14, 13, 11>>

\* the events p1, p2, p1, p3, p4, p5, p6 have been handled
C18_Witness ==
    /\ lastPlay = (11 :> 3 @@ 12 :> 2 @@ 13 :> 4 @@ 14 :> 5 @@ 15 :> 6 @@ 16 :> 7)
    /\ Len(lastOpened) = 5

(***************************************************************************)
(* Change notification.                                                    *)
(***************************************************************************)
\* C19: the changed-containers result of every mutation applied through
\* the database is forwarded at least once to the update manager and to the
\* session manager, and the results of successive mutations are forwarded
\* in the order of the mutations.
C19_EveryMutationForwardedInOrder ==
    /\ \A i \in 1..Len(changeLog) :
           changeLog[i].to = "db" =>
               \A to \in {"upnp", "ui"} :
                   \E j \in (i + 1)..Len(changeLog) :
                       changeLog[j].m = changeLog[i].m /\ changeLog[j].to = to
    /\ \A i, j \in 1..Len(changeLog) :
           i < j => changeLog[i].m <= changeLog[j].m

\* C22: in every dispatch step of the worker a low-priority task is taken
\* only when the normal-priority queue is empty at that moment; exactly one
\* task is taken per step, the head of its queue, and it is the current task
\* when the lock, held until then, is released; the queues lose a task in
\* no other step.
C22_DequeueInvariant ==
    /\ [][runLog' # runLog =>
             /\ Len(runLog') = Len(runLog) + 1
             /\ SubSeq(runLog', 1, Len(runLog)) = runLog
             /\ LET e == runLog'[Len(runLog')]
                IN  /\ e.queue = 2 => taskQueue1 = <<>>
                    /\ Queue(e.queue) # <<>>
                    /\ e.task = Head(Queue(e.queue))
                    /\ <<taskQueue1', taskQueue2'>> =
                           IF e.queue = 1 THEN <<Tail(taskQueue1), taskQueue2>>
                           ELSE <<taskQueue1, Tail(taskQueue2)>>
                    /\ currentTask' = e.task
             /\ mutex = "worker"
             /\ mutex' = "none"]_vars
    /\ [][(tasks' = tasks /\ <<taskQueue1', taskQueue2'>> # <<taskQueue1, taskQueue2>>)
             => runLog' # runLog]_vars

\* the worker has just taken a low-priority task, the normal-priority queue
\* being empty, after a normal-priority task that was enqueued later
C22_Witness ==
    /\ wpc = "dispatch"
    /\ Len(runLog) = 2
    /\ runLog[1].queue = 1
    /\ runLog[2].queue = 2
    /\ runLog[2].task < runLog[1].task
    /\ currentTask = runLog[2].task
    /\ mutex = "none"

\* C23: a task whose parent id is p is never run once p has been
\* invalidated, also when the running parent enqueues it after the
\* invalidateTask(p) call: from a state in which the parent of a task is not
\* valid, no step makes the worker invoke run() on the task.
C23_NoChildRunsAfterParentInvalidated ==
    [][\A t \in DOMAIN tasks :
          (tasks[t].parentID # NoTask /\ ~tasks[tasks[t].parentID].valid)
              => (t \in started' => t \in started)]_vars

\* C24: the container cache never holds a stale entry: in every reachable
\* state each entry of the cache is for a chain whose container exists in
\* the database.
C24_CacheNeverStale ==
    \A c \in DOMAIN containerMap : c \in dbChains

(***************************************************************************)
(* Persistent autoscan directories.                                        *)
(***************************************************************************)
\* C21: when a rescan finds the target of a persistent autoscan directory
\* absent (its container cannot be loaded and its location is not a
\* directory, or the location cannot be opened), the entry stays in the
\* registry with object_id reset to INVALID; a non-persistent entry in the
\* same situation is removed from the registry.
C21_PersistentSurvivesAbsentTarget ==
    (scanLog.ended = "absent" /\ scan.pc = "returned") =>
        IF adir.persistent
        THEN adir.scanValid /\ adir.objectID = INVALID_OBJECT_ID
        ELSE ~adir.scanValid

FilesMet == {n \in scanLog.met : ~IsDir(n)}

\* C28: a regular file the catalog holds is removed and added again by the
\* rescan if and only if its mtime is strictly greater than the memo the
\* scan read at its start; a file whose mtime equals the memo or is below
\* it is left untouched; a file the catalog does not hold is always added.
C28_RescanTieBreak ==
    scanLog.ended # "none" =>
        \A n \in FilesMet :
            /\ n \in scanLog.known =>
                   /\ n \in scanLog.readded <=> disk[n] > scanLog.start
                   /\ n \notin scanLog.added
            /\ n \notin scanLog.known =>
                   /\ n \in scanLog.added
                   /\ n \notin scanLog.readded

\* a scan met a file the catalog holds whose mtime equals the memo
C28_Witness ==
    /\ scanLog.ended = "complete"
    /\ scanLog.start > 0
    /\ "a" \in scanLog.known \cap scanLog.met
    /\ disk["a"] = scanLog.start
    /\ "a" \notin scanLog.readded

(***************************************************************************)
(* The running maximum of a walk.                                          *)
(***************************************************************************)
\* C29: within one walk of a directory, in the loop of the rescan and in the
\* loop of the recursive add alike, the running maximum never decreases from
\* one entry to the next, and the value handed to finishScan is at least the
\* mtime of every child processed in the walk, in whatever order the
\* entries are visited.
C29_RunningMaxMonotone ==
    /\ [][(addWalk.pc = "walk" /\ addWalk'.pc = "walk")
             => addWalk'.newMax >= addWalk.newMax]_vars
    /\ [](addWalk.pc = "done" => addWalk.newMax >= addWalk.seen)
    /\ [][(scan.pc \in {"walk", "subdir"} /\ scan'.pc # "idle")
             => scan'.newMax >= scan.newMax]_vars
    /\ []((scanLog.ended = "complete" /\ scan.pc = "returned") =>
             \A n \in scanLog.met :
                 (IsDir(n) => adir.recursive) => scan.newMax >= disk[n])

(***************************************************************************)
(* Timed rescans.                                                          *)
(***************************************************************************)
\* the rescan tasks of the container of the autoscan directory that wait in
\* a queue or are being run
TimerScans ==
    {t \in Range(taskQueue1) \cup Range(taskQueue2)
            \cup (IF currentTask # NoTask /\ wpc \in {"dispatch", "running"}
                  THEN {currentTask} ELSE {}) :
        /\ tasks[t].type = "RescanDirectory"
        /\ tasks[t].objectID = adir.objectID}

\* C30: the rescans the timer starts for one autoscan directory never
\* overlap: timerNotify enqueues a rescan only when no task of the directory
\* is in flight, so at no time two such rescan tasks are pending or running
\* together, also when timerNotify is entered from the timer thread and from
\* setAutoscanDirectory at once.
C30_TimedRescansNeverOverlap ==
    Cardinality(TimerScans) <= 1

(***************************************************************************)
(* Asynchronous removal of a container.                                    *)
(***************************************************************************)
\* path p is the directory P or lies below it
AtOrBelow(p, P) ==
    \/ p = P
    \/ startswith(p, IF P # NoPath /\ P[Len(P)] = "/" THEN P ELSE P \o <<"/">>)

\* the step of removeObject(async) that enqueues the remove task of container id
EnqueuesRemoveOf(id) ==
    /\ Len(tasks') = Len(tasks) + 1
    /\ tasks'[Len(tasks')] \in {CMRemoveObjectTask(id, r) : r \in BOOLEAN}
    /\ isContainer(id)

Doomed ==
    (IF removal.pc = "enqueue" /\ isContainer(removal.id)
     THEN {getLocation(removal.id)} ELSE {})
        \cup {getLocation(tasks[r].objectID) :
                 r \in {q \in DOMAIN tasks \ started :
                            /\ tasks[q].type = "RemoveObject"
                            /\ isContainer(tasks[q].objectID)}}

\* C26: once the asynchronous removal of the container at path P has been
\* requested, no AddFile task for a path at or below P is run as valid before
\* the RemoveObject task has run, under every interleaving of the removing
\* thread with the worker that rescans a directory and enqueues the add
\* tasks of its subdirectories under the lock.
C26_NoAdditionsForDoomedSubtree ==
    [][\A t \in DOMAIN tasks :
          (tasks[t].type = "AddFile"
               /\ \E P \in Doomed : AtOrBelow(tasks[t].path, P))
              => (t \in started' => t \in started)]_vars

(***************************************************************************)
(* What getTasklist sees under the lock.                                   *)
(***************************************************************************)
\* C31: in every state a caller can observe under the lock, as getTasklist
\* does, no current task implies that both queues are empty, so getTasklist
\* never returns an empty list while tasks are queued.
C31_NoCurrentTaskMeansEmptyQueues ==
    mutex = "none" =>
        /\ currentTask = NoTask => (taskQueue1 = <<>> /\ taskQueue2 = <<>>)
        /\ (taskQueue1 # <<>> \/ taskQueue2 # <<>>) => getTasklist # <<>>

(***************************************************************************)
(* The metadata a created chain receives.                                  *)
(***************************************************************************)
\* the last chain add created the chain, so the database received metadata
CreatedChain == lastAdd.op = "chain" /\ lastAdd.isNew

\* the album artist of the created chain is the artist of an object that
\* has an artist and no album artist
AlbumArtistCopied ==
    (M_ARTIST \in DOMAIN lastAdd.source
        /\ M_ALBUMARTIST \notin DOMAIN lastAdd.source)
    => /\ M_ALBUMARTIST \in DOMAIN lastAdd.handed
       /\ lastAdd.handed[M_ALBUMARTIST] = lastAdd.source[M_ARTIST]

\* C32 as stated: the metadata handed to the database when addContainerChain
\* creates a chain contains none of the keys DESCRIPTION, TITLE, TRACKNUMBER
\* and ARTIST, and its ALBUMARTIST is the source's ARTIST whenever the
\* source had ARTIST but no ALBUMARTIST.
C32_ChainMetadataWithoutTitle ==
    CreatedChain =>
        /\ DOMAIN lastAdd.handed
               \cap {M_DESCRIPTION, M_TITLE, M_TRACKNUMBER, M_ARTIST} = {}
        /\ AlbumArtistCopied

\* C32, amended: the metadata handed to the database when addContainerChain
\* creates a chain contains none of the keys DESCRIPTION, TRACKNUMBER and
\* ARTIST, its TITLE is the last segment of the chain and never the source's
\* TITLE, and its ALBUMARTIST is the source's ARTIST whenever the source had
\* ARTIST but no ALBUMARTIST.
C32_ChainMetadataFiltered ==
    CreatedChain =>
        /\ DOMAIN lastAdd.handed
               \cap {M_DESCRIPTION, M_TRACKNUMBER, M_ARTIST} = {}
        /\ M_TITLE \in DOMAIN lastAdd.handed
        /\ lastAdd.handed[M_TITLE] = lastAdd.chain[Len(lastAdd.chain)]
        /\ AlbumArtistCopied

\* a chain was created for an object with title, description, track number
\* and artist and without album artist
C32_Witness ==
    /\ CreatedChain
    /\ {M_TITLE, M_DESCRIPTION, M_TRACKNUMBER, M_ARTIST}
           \subseteq DOMAIN lastAdd.source
    /\ M_ALBUMARTIST \notin DOMAIN lastAdd.source
    /\ lastAdd.source[M_TITLE] # lastAdd.source[M_ARTIST]

(***************************************************************************)
(* The count of tasks in flight of an autoscan directory.                  *)
(***************************************************************************)
\* the tasks counted for the autoscan directory that are queued or current
CountedTasks ==
    {t \in LiveTasks : tasks[t].type \in {"AddFile", "RescanDirectory"}}

\* C33: while the autoscan directory is in the registry its task_count is
\* the number of AddFile and RescanDirectory tasks referencing it that are
\* queued or running: between two tasks of the worker the count equals the
\* number of queued tasks, and once both queues are empty and the worker
\* waits the count is 0, also after tasks were invalidated and skipped.
C33_TaskCountMatchesTasks ==
    (adir.scanValid /\ dbAutoscan.present /\ currentTask = NoTask
        /\ wpc = "waiting")
    => /\ adir.taskCount = Cardinality(CountedTasks)
       /\ (taskQueue1 = <<>> /\ taskQueue2 = <<>>) => adir.taskCount = 0

(***************************************************************************)
(* The tasks a cancelled rescan has enqueued.                              *)
(***************************************************************************)
\* C34: after invalidateTask on a RescanDirectory task R, no task enqueued
\* by R, neither the recursive add of a new sub-directory nor the rescan of
\* a known sub-directory, runs as valid afterwards: once the scan of R has
\* been stopped by the invalidation, no task it enqueued passes the worker's
\* validity test.
C34_CancelledRescanCancelsSpawned ==
    [][\A c \in scanLog.spawned :
           (scanLog.by \in cancelled /\ scanLog.ended = "stopped"
                /\ c \notin started)
           => c \notin started']_vars

(***************************************************************************)
(* What invalidateTask leaves alone.                                       *)
(***************************************************************************)
\* task t is the task id or was enqueued as a child of the task id
RelatedTo(t, id) == t = id \/ (id # NoTask /\ tasks[t].parentID = id)

\* C35: invalidateTask(id) changes the validity of no task other than the
\* task id and the tasks enqueued as its children, for every value of id:
\* the tasks that lose their valid flag in one step are all related to one
\* id, and top-level tasks are children of no task.
C35_InvalidateTaskFrame ==
    [][\E id \in 0..MaxTasks :
           \A t \in DOMAIN tasks :
               (tasks[t].valid /\ ~tasks'[t].valid) => RelatedTo(t, id)]_vars

(***************************************************************************)
(* What the asynchronous removal of a container leaves alone.              *)
(***************************************************************************)
\* C36: the asynchronous removal of the container at path P leaves valid
\* every AddFile task whose path is not P and not inside P, a sibling whose
\* name has P as a string prefix included.
C36_AsyncRemovalSparesSiblings ==
    [][\A id \in ObjectIds :
          EnqueuesRemoveOf(id) =>
              \A t \in DOMAIN tasks :
                  (tasks[t].type = "AddFile" /\ tasks[t].valid
                       /\ ~AtOrBelow(tasks[t].path, getLocation(id)))
                  => tasks'[t].valid]_vars

(***************************************************************************)
(* Removals the engine rejects.                                            *)
(***************************************************************************)
\* C37: a call of removeObject, synchronous or asynchronous, with ROOT,
\* FS_ROOT or a forbidden id leaves the autoscan registry, the tasks and
\* their valid flags, both queues, the current task and the catalog as they
\* were before the call.
C37_RejectedRemovalChangesNothing ==
    [][(lastCall' # lastCall /\ lastCall'.op \in {"sync", "async"}
            /\ Rejects(lastCall'.id))
       => /\ adir' = adir
          /\ dbAutoscan' = dbAutoscan
          /\ tasks' = tasks
          /\ taskQueue1' = taskQueue1
          /\ taskQueue2' = taskQueue2
          /\ currentTask' = currentTask
          /\ dbObjects' = dbObjects
          /\ dbChains' = dbChains]_vars

(***************************************************************************)
(* What updateObject(objectID, parameters) leaves alone.                   *)
(***************************************************************************)
\* the last update had no entry, or an empty one, for the key
NotNamed(k) == getValueOrDefault(lastUpdate.parameters, k) = ""

\* C38: updateObject(id, parameters) on an item changes only the attributes
\* named by non-empty entries of the parameters map: an attribute whose
\* entry is absent or empty is as before (the protocol info of the resource
\* belongs to mime-type and protocol), and a call that changes nothing
\* writes nothing.
C38_UpdateChangesOnlyNamed ==
    lastUpdate # NoUpdate =>
        /\ NotNamed("title") => dbItem.title = lastUpdate.before.title
        /\ NotNamed("class") => dbItem.class = lastUpdate.before.class
        /\ NotNamed("location") => dbItem.location = lastUpdate.before.location
        /\ NotNamed("bookmarkpos")
               => dbItem.bookMarkPos = lastUpdate.before.bookMarkPos
        /\ NotNamed("mime-type") => dbItem.mimeType = lastUpdate.before.mimeType
        /\ (NotNamed("mime-type") /\ NotNamed("protocol"))
               => dbItem.protocolInfo = lastUpdate.before.protocolInfo
        /\ NotNamed("description")
               => dbItem.description = lastUpdate.before.description
        /\ dbItem = lastUpdate.before => ~lastUpdate.wrote

(***************************************************************************)
(* The list of last played containers under concurrent play events.        *)
(***************************************************************************)
\* C39: when PlayHookHandler invocations run on different threads with
\* their find, erase, insert and pop steps interleaved, lastOpened has no
\* duplicate parent id and at most 5 entries once all handlers have
\* finished.
C39_ConcurrentPlaysKeepMRU ==
    (\A t \in Threads : hooks[t].pc = "idle") =>
        /\ \A i, j \in 1..Len(lastOpened) :
               lastOpened[i] = lastOpened[j] => i = j
        /\ Len(lastOpened) <= limit

(***************************************************************************)
(* No task is lost or starved.                                             *)
(***************************************************************************)
\* task t is in one of the queues; the worker has dequeued it
Queued(t) == t \in Range(taskQueue1) \cup Range(taskQueue2)
Dequeued(t) == \E i \in 1..Len(runLog) : runLog[i].task = t

\* C40: if shutdown is never requested and every run() returns, every task
\* appended to either queue is eventually dequeued, and its run() begins
\* unless it has been invalidated by then; the worker runs a task exactly
\* when it finds it valid.  (The tasks are finitely many, so a low-priority
\* task has finitely many normal-priority tasks ahead of it.)
C40_NoTaskLostOrStarved ==
    /\ \A t \in 1..MaxTasks :
           Queued(t) ~> (Dequeued(t) /\ (t \in started \/ ~tasks[t].valid))
    /\ [][(wpc = "dispatch" /\ wpc' # "dispatch")
             => (tasks[currentTask].valid <=> currentTask \in started')]_vars

\* a low-priority task has run after a normal-priority task that was
\* enqueued later than it, and a task enqueued while the worker waited has
\* run
C40_Witness ==
    /\ \E i, j \in 1..Len(runLog) :
           /\ i < j
           /\ runLog[i].queue = 1
           /\ runLog[j].queue = 2
           /\ runLog[i].task > runLog[j].task
           /\ runLog[j].task \in started
    /\ wpc = "waiting"

(***************************************************************************)
(* Adds and removes of the same path.                                      *)
(***************************************************************************)
\* the add task A was enqueued before the remove task R, for the path of the
\* object R removes
AddThenRemove(A, R) ==
    /\ tasks[A].type = "AddFile"
    /\ tasks[R].type = "RemoveObject"
    /\ A < R
    /\ tasks[A].path = getLocation(tasks[R].objectID)
\* the worker took task A before the j-th task it dequeued, and ran it
RanBefore(A, j) == A \in started /\ \E i \in 1..(j - 1) : runLog[i].task = A
\* task A was enqueued with normal priority
NormalPriority(A) ==
    \/ A \in Range(taskQueue1)
    \/ \E i \in 1..Len(runLog) : runLog[i].task = A /\ runLog[i].queue = 1

\* C20 (as stated): an asynchronous remove enqueued after an asynchronous
\* add for the same path is executed after the add has run, whoever enqueued
\* the add and with whatever priority.
C20_RemoveAfterAnyAdd ==
    \A j \in 1..Len(runLog) : \A A \in DOMAIN tasks :
        AddThenRemove(A, runLog[j].task) => RanBefore(A, j)

\* C20 (amended): it is, if the add was enqueued with normal priority and
\* is not invalidated before it runs.
C20_RemoveAfterNormalValidAdd ==
    \A j \in 1..Len(runLog) : \A A \in DOMAIN tasks :
        (AddThenRemove(A, runLog[j].task) /\ NormalPriority(A) /\ tasks[A].valid)
            => RanBefore(A, j)

\* a remove has run after the normal-priority add for its path that was
\* enqueued before it
C20_Witness ==
    \E j \in 1..Len(runLog) : \E A \in DOMAIN tasks :
        /\ AddThenRemove(A, runLog[j].task)
        /\ NormalPriority(A)
        /\ RanBefore(A, j)
        /\ runLog[j].task \in started

====
